---- MODULE Spec2Model ----
(***************************************************************************)
(* InkPaint 0.3 (src/editor/inkpaint0.3.py): the document model, the       *)
(* pointer handlers, the undo/redo log and the .inks writer and loader.    *)
(*                                                                         *)
(* Stroke objects live in `heap`; a layer, the selection, the active       *)
(* stroke and the AddStroke log entries hold references (indices into      *)
(* heap), as the Python objects do.  Coordinates are integers in units of  *)
(* 0.001 document units.  The viewport is the identity (scale 1, offset    *)
(* 0), so a pointer event carries its world position.                      *)
(***************************************************************************)
EXTENDS Integers, Sequences, FiniteSets, TLC

\* ------------------------------------------------------------------
\* Bounds of the model
\* ------------------------------------------------------------------
MaxStrokes == 2      \* strokes are created while stroke_counter <= MaxStrokes
MaxLayers  == 2      \* layers are added while layer_counter <= MaxLayers
MaxHist    == 2      \* forward actions record while Len(undo_stack) < MaxHist
MaxPts     == 2      \* a brush stroke / eraser path grows to MaxPts points
MaxPtsAll  == 1      \* the same, in the specification with every tool
MaxHistErase == 3    \* the history bound of the specification of erasing
MaxStrokesLoad == 3  \* the stroke bound of the specification of loading
MaxLayersLoad == 2   \* the layer bound of the specification of loading
MaxHistLoad == 1     \* the history bound of the specification of loading
CoordMax   == 24000  \* a selection drag keeps coordinates in 0..CoordMax

\* ------------------------------------------------------------------
\* Program constants
\* ------------------------------------------------------------------
DefaultWidth   == 1000
DefaultHeight  == 700
DefaultBg      == "#0b0d12"
DefaultColor   == "#ffffff"
StrokeWidth    == 3
EraserWidth    == 20
LoadDefaultColor == "#000000"
LoadDefaultWidth == 2
MilliPerCent   == 10       \* model units per 0.01, the precision of "%.2f"
Milli          == MilliPerCent * 100    \* model units per document unit
HalfMilli      == Milli \div 2

None == "None"
NoRef == 0
NoPoint == <<>>

\* pointer positions: PA and PB are further apart than the eraser radius, and
\* PM lies inside the rectangle they span
PA == <<0, 0>>
PM == <<12000, 12000>>
PB == <<24000, 24000>>
Pts == {PA, PB}
AllPts == {PA, PM, PB}
Palette == {"#ffffff", "#ff0000"}
Tools == {"brush", "eraser", "line", "rect", "select", "fill"}
DrawTools == {"brush", "eraser", "rect", "fill"}

VARIABLES
    layers,               \* self.layers: Seq of [id, name, visible, strokes: Seq(ref)]
    heap,                 \* the Stroke objects: Seq of [id, color, width, points, erased, fill]
    layer_counter,
    stroke_counter,
    current_layer_index,
    tool,
    color,
    undo_stack,
    redo_stack,
    selected_strokes,     \* Seq(ref)
    moving_selection,     \* self._moving_selection
    move_snapshots,       \* self._move_snapshots: Seq of [sid, old_pts]
    move_last,            \* self._move_last
    sel_start,            \* self._sel_start
    active_stroke,        \* self._active_stroke (ref)
    active_eraser,        \* self._active_eraser: [on, points, width]
    shape_start,          \* self._shape_start
    width, height, bg_color,
    pressed,              \* button 1 of the pointer is held down
    file                  \* the text last written by save_inks: Seq of lines

vars == <<layers, heap, layer_counter, stroke_counter, current_layer_index,
          tool, color, undo_stack, redo_stack, selected_strokes,
          moving_selection, move_snapshots, move_last, sel_start,
          active_stroke, active_eraser, shape_start, width, height,
          bg_color, pressed, file>>

\* The editor object as one value.
St == [layers |-> layers, heap |-> heap, layer_counter |-> layer_counter,
       stroke_counter |-> stroke_counter,
       current_layer_index |-> current_layer_index, tool |-> tool,
       color |-> color, undo_stack |-> undo_stack, redo_stack |-> redo_stack,
       selected_strokes |-> selected_strokes,
       moving_selection |-> moving_selection,
       move_snapshots |-> move_snapshots, move_last |-> move_last,
       sel_start |-> sel_start, active_stroke |-> active_stroke,
       active_eraser |-> active_eraser, shape_start |-> shape_start,
       width |-> width, height |-> height, bg_color |-> bg_color]

\* ------------------------------------------------------------------
\* Sequence helpers
\* ------------------------------------------------------------------
RemoveAt(s, i) == [k \in 1..(Len(s) - 1) |-> IF k < i THEN s[k] ELSE s[k + 1]]
Front(s) == SubSeq(s, 1, Len(s) - 1)
Last(s) == s[Len(s)]
Range(s) == {s[k] : k \in 1..Len(s)}
Min(S) == CHOOSE m \in S : \A k \in S : m <= k
Max(S) == CHOOSE m \in S : \A k \in S : m >= k
\* the first of the indices S, 0 when there is none
FirstIdx(S) == IF S = {} THEN 0 ELSE Min(S)

\* ------------------------------------------------------------------
\* Models: Stroke, Layer, the three action classes
\* ------------------------------------------------------------------
StrokeId(n) == [pre |-> "stroke_", num |-> n]

Stroke(sid, col, w, pts, fill) ==
    [id |-> sid, color |-> col, width |-> w, points |-> pts,
     erased |-> FALSE, fill |-> fill]

LayerName(n) == "Layer " \o ToString(n)

Layer(lid, name, vis) ==
    [id |-> lid, name |-> name, visible |-> vis, strokes |-> <<>>]

ActionAddStroke(lid, ref) ==
    [type |-> "AddStroke", layer_id |-> lid, stroke |-> ref,
     stroke_ids |-> <<>>, stroke_snapshots |-> <<>>]

ActionEraseStrokes(lid, ids) ==
    [type |-> "EraseStrokes", layer_id |-> lid, stroke |-> NoRef,
     stroke_ids |-> ids, stroke_snapshots |-> <<>>]

ActionMoveStrokes(lid, snaps) ==
    [type |-> "MoveStrokes", layer_id |-> lid, stroke |-> NoRef,
     stroke_ids |-> <<>>, stroke_snapshots |-> snaps]

NoEraser == [on |-> FALSE, points |-> <<>>, width |-> 0]

\* ------------------------------------------------------------------
\* Lookups
\* ------------------------------------------------------------------
\* _current_layer: index (1-based) of the layer it returns, 0 for None
CurrentLayer(st) ==
    IF st.layers = <<>> THEN 0
    ELSE IF st.current_layer_index < 0
            \/ st.current_layer_index >= Len(st.layers) THEN 1
    ELSE st.current_layer_index + 1

\* _layer_by_id: index of the first layer with that id, 0 for None
LayerById(st, lid) == FirstIdx({k \in 1..Len(st.layers) : st.layers[k].id = lid})

\* all stroke references of the document, layer by layer
RECURSIVE AllRefs(_)
AllRefs(ls) == IF ls = <<>> THEN <<>> ELSE Head(ls).strokes \o AllRefs(Tail(ls))

\* _find_stroke_by_id: reference of the first stroke with that id, NoRef for None
FindStrokeById(st, sid) ==
    LET refs == AllRefs(st.layers)
        k == FirstIdx({j \in 1..Len(refs) : st.heap[refs[j]].id = sid})
    IN IF k = 0 THEN NoRef ELSE refs[k]

\* ------------------------------------------------------------------
\* Document management
\* ------------------------------------------------------------------
\* an add_layer that puts the new layer last
DoAddLayerLast(st) ==
    [st EXCEPT !.layers = Append(st.layers,
                                 Layer(st.layer_counter, LayerName(st.layer_counter), TRUE)),
               !.layer_counter = st.layer_counter + 1,
               !.current_layer_index = 0]

\* add_layer(name=None)
DoAddLayer(st) ==
    [st EXCEPT !.layers = <<Layer(st.layer_counter, LayerName(st.layer_counter), TRUE)>>
                          \o st.layers,
               !.layer_counter = st.layer_counter + 1,
               !.current_layer_index = 0]

\* new_document
DoNewDocument(st) ==
    LET cleared == [st EXCEPT !.layers = <<>>, !.layer_counter = 1,
                              !.stroke_counter = 1, !.undo_stack = <<>>,
                              !.redo_stack = <<>>]
    IN [DoAddLayer(cleared) EXCEPT !.current_layer_index = 0]

\* remove_layer
DoRemoveLayer(st) ==
    LET idx == st.current_layer_index IN
    IF st.layers = <<>> THEN st
    ELSE IF idx < 0 \/ idx >= Len(st.layers) THEN st
    ELSE [st EXCEPT !.layers = RemoveAt(st.layers, idx + 1),
                    !.current_layer_index =
                        Max({0, Min({idx, Len(st.layers) - 2})})]

\* move_layer_up raises IndexError: idx > 0 and self.layers[idx] is beyond
\* the list
MoveLayerUpRaises(st) ==
    st.current_layer_index > 0 /\ st.current_layer_index >= Len(st.layers)

\* move_layer_up
DoMoveLayerUp(st) ==
    LET idx == st.current_layer_index IN
    IF idx > 0 /\ idx < Len(st.layers)   \* beyond the list the swap raises IndexError
    THEN [st EXCEPT !.layers = [st.layers EXCEPT ![idx] = st.layers[idx + 1],
                                                 ![idx + 1] = st.layers[idx]],
                    !.current_layer_index = idx - 1]
    ELSE st

\* move_layer_down
DoMoveLayerDown(st) ==
    LET idx == st.current_layer_index IN
    IF idx < Len(st.layers) - 1
    THEN [st EXCEPT !.layers = [st.layers EXCEPT ![idx + 2] = st.layers[idx + 1],
                                                 ![idx + 1] = st.layers[idx + 2]],
                    !.current_layer_index = idx + 1]
    ELSE st

\* toggle_layer_visibility
DoToggleLayerVisibility(st) ==
    LET li == CurrentLayer(st) IN
    IF li = 0 THEN st
    ELSE [st EXCEPT !.layers[li].visible = ~st.layers[li].visible]

\* ids of the strokes of layer li that are not erased, in order
RECURSIVE LiveIds(_, _)
LiveIds(h, refs) ==
    IF refs = <<>> THEN <<>>
    ELSE (IF h[Head(refs)].erased THEN <<>> ELSE <<h[Head(refs)].id>>)
         \o LiveIds(h, Tail(refs))

\* clear_current_layer
DoClearCurrentLayer(st) ==
    LET li == CurrentLayer(st) IN
    IF li = 0 THEN st
    ELSE [st EXCEPT !.layers[li].strokes = <<>>,
                    !.undo_stack = Append(st.undo_stack,
                        ActionEraseStrokes(st.layers[li].id,
                                           LiveIds(st.heap, st.layers[li].strokes))),
                    !.redo_stack = <<>>]

\* on_layer_select: sel is the listbox selection, -1 when it is empty
DoLayerSelect(st, sel) ==
    [st EXCEPT !.current_layer_index = IF sel >= 0 THEN sel ELSE 0]

\* set_tool
DoSetTool(st, t) == [st EXCEPT !.tool = t]

\* pick_color: c is the dialog's answer, None when cancelled
DoPickColor(st, c) == IF c # None THEN [st EXCEPT !.color = c] ELSE st

\* ------------------------------------------------------------------
\* Geometry
\* ------------------------------------------------------------------
\* one edge test of _point_in_polygon:
\*   ((yi > y) != (yj > y)) and (x < (xj - xi) * (y - yi) / (yj - yi + 1e-12) + xi)
\* With coordinates on the integer grid, yj # yi whenever the first conjunct
\* holds; the 1e-12 only decides the case x = the exact crossing abscissa,
\* where the computed abscissa lies on the far side of xi + exact when the
\* numerator is negative.
EdgeCrosses(p, a, b) ==
    LET x == p[1]  y == p[2]
        xi == a[1] yi == a[2]
        xj == b[1] yj == b[2]
        d == yj - yi
        num == (xj - xi) * (y - yi)
        lhs == (x - xi) * d
    IN /\ (yi > y) # (yj > y)
       /\ IF lhs = num THEN num < 0
          ELSE IF d > 0 THEN lhs < num ELSE lhs > num

\* _point_in_polygon
PointInPolygon(p, polygon) ==
    LET n == Len(polygon)
        crossing == {i \in 1..n : EdgeCrosses(p, polygon[i], polygon[(i % n) + 1])}
    IN Cardinality(crossing) % 2 = 1

\* a check that leaves out the points at the radius itself
EraserHitsInside(path, pts, w) ==
    \E i \in 1..Len(path), j \in 1..Len(pts) :
        LET dx == path[i][1] - pts[j][1]
            dy == path[i][2] - pts[j][2]
        IN dx * dx + dy * dy < (w * HalfMilli) * (w * HalfMilli)

\* the precise check of _apply_eraser_path for one stroke
EraserHits(path, pts, w) ==
    \E i \in 1..Len(path), j \in 1..Len(pts) :
        LET dx == path[i][1] - pts[j][1]
            dy == path[i][2] - pts[j][2]
        IN dx * dx + dy * dy <= (w * HalfMilli) * (w * HalfMilli)

\* _apply_eraser_path: the heap after the gesture and the returned ids
RECURSIVE EraseOver(_, _, _, _)
EraseOver(h, refs, path, w) ==
    IF refs = <<>> THEN [heap |-> h, ids |-> <<>>]
    ELSE LET r == Head(refs)
             hit == /\ ~h[r].erased
                    /\ h[r].points # <<>>
                    /\ EraserHits(path, h[r].points, w)
             h2 == IF hit THEN [h EXCEPT ![r].erased = TRUE] ELSE h
             rest == EraseOver(h2, Tail(refs), path, w)
         IN [heap |-> rest.heap,
             ids |-> (IF hit THEN <<h[r].id>> ELSE <<>>) \o rest.ids]

ApplyEraserPath(st, path, w) ==
    LET li == CurrentLayer(st) IN
    IF path = <<>> \/ li = 0 THEN [heap |-> st.heap, ids |-> <<>>]
    ELSE EraseOver(st.heap, st.layers[li].strokes, path, w)

\* _selection_bbox; None is <<>>; "raise" when min() gets an empty list
SelXs(st) == UNION {{pt[1] : pt \in Range(st.heap[r].points)} : r \in Range(st.selected_strokes)}
SelYs(st) == UNION {{pt[2] : pt \in Range(st.heap[r].points)} : r \in Range(st.selected_strokes)}
SelectionBbox(st) ==
    IF st.selected_strokes = <<>> THEN <<>>
    ELSE IF SelXs(st) = {} THEN <<"raise">>
    ELSE <<Min(SelXs(st)), Min(SelYs(st)), Max(SelXs(st)), Max(SelYs(st))>>

\* ------------------------------------------------------------------
\* Fill
\* ------------------------------------------------------------------
\* _apply_fill_at: the first stroke, from the last to the first of the layer,
\* that is not erased, has at least 3 points and contains the point
FillTarget(st, p) ==
    LET li == CurrentLayer(st)
        refs == IF li = 0 THEN <<>> ELSE st.layers[li].strokes
        ok(k) == /\ ~st.heap[refs[k]].erased
                 /\ Len(st.heap[refs[k]].points) >= 3
                 /\ PointInPolygon(p, st.heap[refs[k]].points)
    IN IF \E k \in 1..Len(refs) : ok(k)
       THEN refs[Max({k \in 1..Len(refs) : ok(k)})]
       ELSE NoRef

\* a fill that leaves the redo stack as it is
DoApplyFillAtKeepRedo(st, p) ==
    LET li == CurrentLayer(st)
        r == FillTarget(st, p)
    IN IF li = 0 \/ r = NoRef THEN st
       ELSE [st EXCEPT !.heap[r].fill = st.color,
                       !.undo_stack = Append(st.undo_stack,
                                             ActionAddStroke(st.layers[li].id, r))]

\* _apply_fill_at
DoApplyFillAt(st, p) ==
    LET li == CurrentLayer(st)
        r == FillTarget(st, p)
    IN IF li = 0 \/ r = NoRef THEN st
       ELSE [st EXCEPT !.heap[r].fill = st.color,
                       !.undo_stack = Append(st.undo_stack,
                                             ActionAddStroke(st.layers[li].id, r)),
                       !.redo_stack = <<>>]

\* ------------------------------------------------------------------
\* Pointer events; p is the world position of the event
\* ------------------------------------------------------------------
IsShapeTool(t) == t \in {"line", "rect", "ellipse"}

\* on_pointer_down (without Control)
DoPointerDown(st, p) ==
    LET li == CurrentLayer(st) IN
    IF li = 0 THEN st
    ELSE IF st.tool = "brush" THEN
        LET ref == Len(st.heap) + 1
            s == Stroke(StrokeId(st.stroke_counter), st.color, StrokeWidth, <<p>>, None)
        IN [st EXCEPT !.stroke_counter = st.stroke_counter + 1,
                      !.heap = Append(st.heap, s),
                      !.layers[li].strokes = Append(st.layers[li].strokes, ref),
                      !.active_stroke = ref]
    ELSE IF st.tool = "eraser" THEN
        [st EXCEPT !.active_eraser = [on |-> TRUE, points |-> <<p>>, width |-> EraserWidth]]
    ELSE IF IsShapeTool(st.tool) THEN
        [st EXCEPT !.shape_start = p]
    ELSE IF st.tool = "select" THEN
        LET bbox == SelectionBbox(st)
            st1 == [st EXCEPT !.sel_start = p]
        IN IF bbox = <<"raise">> THEN st1
           ELSE IF /\ bbox # <<>>
                   /\ bbox[1] <= p[1] /\ p[1] <= bbox[3]
                   /\ bbox[2] <= p[2] /\ p[2] <= bbox[4]
           THEN [st1 EXCEPT !.moving_selection = TRUE,
                            !.move_snapshots =
                                [k \in 1..Len(st.selected_strokes) |->
                                    [sid |-> st.heap[st.selected_strokes[k]].id,
                                     old_pts |-> st.heap[st.selected_strokes[k]].points,
                                     new_pts |-> <<>>]],
                            !.move_last = p]
           ELSE [st1 EXCEPT !.moving_selection = FALSE]
    ELSE IF st.tool = "fill" THEN DoApplyFillAt(st, p)
    ELSE st

\* _pick_color_under: the colour of the first stroke, layer by layer and from
\* the last stroke of a layer to its first, that is not erased and has a point
\* within max(1, width/2) of p; the background colour when there is none
RECURSIVE Reverse(_)
Reverse(q) == IF q = <<>> THEN <<>> ELSE Append(Reverse(Tail(q)), Head(q))

RECURSIVE PickOrder(_)
PickOrder(ls) ==
    IF ls = <<>> THEN <<>> ELSE Reverse(Head(ls).strokes) \o PickOrder(Tail(ls))

PickColorUnder(st, p) ==
    LET refs == PickOrder(st.layers)
        near(r) == /\ ~st.heap[r].erased
                   /\ \E j \in 1..Len(st.heap[r].points) :
                        LET dx == st.heap[r].points[j][1] - p[1]
                            dy == st.heap[r].points[j][2] - p[2]
                            w == st.heap[r].width
                        IN IF w <= 2
                           THEN dx * dx + dy * dy <= Milli * Milli
                           ELSE dx * dx + dy * dy <= (w * HalfMilli) * (w * HalfMilli)
        k == FirstIdx({j \in 1..Len(refs) : near(refs[j])})
    IN IF k = 0 THEN st.bg_color ELSE st.heap[refs[k]].color

\* on_pointer_down with Control pressed: the eyedropper
DoEyedropper(st, p) == [st EXCEPT !.color = PickColorUnder(st, p)]

\* translate the points of every selected stroke by (dx, dy)
RECURSIVE MoveRefs(_, _, _, _)
MoveRefs(h, refs, dx, dy) ==
    IF refs = <<>> THEN h
    ELSE LET r == Head(refs)
             moved == [k \in 1..Len(h[r].points) |->
                          <<h[r].points[k][1] + dx, h[r].points[k][2] + dy>>]
         IN MoveRefs([h EXCEPT ![r].points = moved], Tail(refs), dx, dy)

\* on_pointer_move
DoPointerMove(st, p) ==
    IF st.tool = "brush" /\ st.active_stroke # NoRef THEN
        [st EXCEPT !.heap[st.active_stroke].points = Append(@, p)]
    ELSE IF st.tool = "eraser" /\ st.active_eraser.on THEN
        [st EXCEPT !.active_eraser.points = Append(@, p)]
    ELSE IF IsShapeTool(st.tool) /\ st.shape_start # NoPoint THEN st
    ELSE IF st.tool = "select" /\ st.sel_start # NoPoint /\ ~st.moving_selection THEN st
    ELSE IF st.tool = "select" /\ st.moving_selection /\ st.move_last # NoPoint THEN
        LET dx == p[1] - st.move_last[1]
            dy == p[2] - st.move_last[2]
        IN IF dx = 0 /\ dy = 0 THEN st
           ELSE [st EXCEPT !.heap = MoveRefs(st.heap, st.selected_strokes, dx, dy),
                           !.move_last = p]
    ELSE st

\* the snapshots on_pointer_up records for a finished move
RECURSIVE FinishSnapshots(_, _)
FinishSnapshots(st, snaps) ==
    IF snaps = <<>> THEN <<>>
    ELSE LET r == FindStrokeById(st, Head(snaps).sid)
         IN (IF r # NoRef
             THEN <<[sid |-> Head(snaps).sid, old_pts |-> Head(snaps).old_pts,
                     new_pts |-> st.heap[r].points]>>
             ELSE <<>>) \o FinishSnapshots(st, Tail(snaps))

\* the selection on_pointer_up builds from the rectangle sel_start..p
RECURSIVE SelectIn(_, _, _, _)
SelectIn(h, refs, a, b) ==
    IF refs = <<>> THEN <<>>
    ELSE LET r == Head(refs)
             xmin == Min({a[1], b[1]}) xmax == Max({a[1], b[1]})
             ymin == Min({a[2], b[2]}) ymax == Max({a[2], b[2]})
             inside == /\ ~h[r].erased
                       /\ \E j \in 1..Len(h[r].points) :
                            /\ xmin <= h[r].points[j][1] /\ h[r].points[j][1] <= xmax
                            /\ ymin <= h[r].points[j][2] /\ h[r].points[j][2] <= ymax
         IN (IF inside THEN <<r>> ELSE <<>>) \o SelectIn(h, Tail(refs), a, b)

\* The ellipse of on_pointer_up. Lengths are in 0.001; cos and sin of
\* 2*pi*i/steps are tabulated to 6 decimals for the step counts the gestures
\* of EllipsePts give.
MinSegments == 12
Abs(n) == IF n < 0 THEN -n ELSE n
Sign(n) == IF n < 0 THEN -1 ELSE 1

Cos6 ==
    [n \in 12..13 |->
       IF n = 12
       THEN <<1000000, 866025, 500000, 0, -500000, -866025, -1000000,
              -866025, -500000, 0, 500000, 866025, 1000000>>
       ELSE <<1000000, 885456, 568065, 120537, -354605, -748511, -970942,
              -970942, -748511, -354605, 120537, 568065, 885456, 1000000>>]
Sin6 ==
    [n \in 12..13 |->
       IF n = 12
       THEN <<0, 500000, 866025, 1000000, 866025, 500000, 0,
              -500000, -866025, -1000000, -866025, -500000, 0>>
       ELSE <<0, 464723, 822984, 992709, 935016, 663123, 239316,
              -239316, -663123, -935016, -992709, -822984, -464723, 0>>]

\* r * c6 / 10^6 to the nearest 0.001, r >= 0
MulRound(r, c6) ==
    LET hi == r * (Abs(c6) \div 1000)
        lo == r * (Abs(c6) % 1000)
    IN Sign(c6) * ((hi \div 1000) + (((hi % 1000) * 1000 + lo + 500000) \div 1000000))

\* steps = max(12, int(24 * max(rx, ry) / 100))
EllipseSteps(rx, ry) == Max({MinSegments, (24 * Max({rx, ry})) \div (100 * Milli)})

\* math.sin(2*math.pi*steps/steps) is not 0.0: in thousandths of 2^-52 it is
\* -1103 for 12 steps (-2.449e-16) and 2897 for 13 (6.432e-16); the cosine
\* is 1.0
TurnSin == [n \in 12..13 |-> IF n = 12 THEN -1103 ELSE 2897]

\* the float spacing at c > 0, in units of 2^-52: the largest power of two
\* not above c
Spacing(c) == Max({w \in {1, 2, 4, 8, 16, 32, 64, 128} : w * Milli <= c})

\* cy + ry * sin(t) at the end of the turn, in float steps from cy: the
\* product rounded to the spacing at cy
TurnSteps(cy, ry, n) ==
    IF ry = 0 THEN 0
    ELSE Sign(TurnSin[n]) *
           ((2 * ry * Abs(TurnSin[n]) + Spacing(cy) * Milli * Milli)
               \div (2 * Spacing(cy) * Milli * Milli))

\* the samples i = 0..steps; the closing sample carries, as a third
\* component, its distance from the grid point in float steps when that is
\* not zero
EllipsePoints(a, b) ==
    LET cx == (a[1] + b[1]) \div 2
        cy == (a[2] + b[2]) \div 2
        rx == Abs(b[1] - a[1]) \div 2
        ry == Abs(b[2] - a[2]) \div 2
        steps == EllipseSteps(rx, ry)
        off == TurnSteps(cy, ry, steps)
        at(i) == <<cx + MulRound(rx, Cos6[steps][i + 1]),
                   cy + MulRound(ry, Sin6[steps][i + 1])>>
    IN [k \in 1..(steps + 1) |->
           IF k = steps + 1 /\ off # 0 THEN at(k - 1) \o <<<<0, off>>>>
           ELSE at(k - 1)]

ShapePoints(t, a, b) ==
    IF t = "line" THEN <<a, b>>
    ELSE IF t = "rect" THEN <<a, <<b[1], a[2]>>, b, <<a[1], b[2]>>, a>>
    ELSE EllipsePoints(a, b)

\* on_pointer_up
DoPointerUp(st, p) ==
    LET li == CurrentLayer(st) IN
    IF li = 0 THEN st
    ELSE IF st.tool = "brush" /\ st.active_stroke # NoRef THEN
        [st EXCEPT !.active_stroke = NoRef,
                   !.undo_stack = Append(st.undo_stack,
                        ActionAddStroke(st.layers[li].id, st.active_stroke)),
                   !.redo_stack = <<>>]
    ELSE IF st.tool = "eraser" /\ st.active_eraser.on THEN
        LET res == ApplyEraserPath(st, st.active_eraser.points, st.active_eraser.width)
            st1 == [st EXCEPT !.active_eraser = NoEraser, !.heap = res.heap]
        IN IF res.ids # <<>>
           THEN [st1 EXCEPT !.undo_stack = Append(st.undo_stack,
                                ActionEraseStrokes(st.layers[li].id, res.ids)),
                            !.redo_stack = <<>>]
           ELSE st1
    ELSE IF IsShapeTool(st.tool) /\ st.shape_start # NoPoint THEN
        LET ref == Len(st.heap) + 1
            s == Stroke(StrokeId(st.stroke_counter), st.color, StrokeWidth,
                        ShapePoints(st.tool, st.shape_start, p), None)
        IN [st EXCEPT !.stroke_counter = st.stroke_counter + 1,
                      !.heap = Append(st.heap, s),
                      !.layers[li].strokes = Append(st.layers[li].strokes, ref),
                      !.undo_stack = Append(st.undo_stack,
                                            ActionAddStroke(st.layers[li].id, ref)),
                      !.redo_stack = <<>>,
                      !.shape_start = NoPoint]
    ELSE IF st.tool = "select" /\ st.sel_start # NoPoint THEN
        IF st.moving_selection
        THEN [st EXCEPT !.undo_stack = Append(st.undo_stack,
                            ActionMoveStrokes(st.layers[li].id,
                                              FinishSnapshots(st, st.move_snapshots))),
                        !.redo_stack = <<>>,
                        !.moving_selection = FALSE,
                        !.move_snapshots = <<>>,
                        !.move_last = NoPoint,
                        !.sel_start = NoPoint]
        ELSE [st EXCEPT !.selected_strokes =
                            SelectIn(st.heap, st.layers[li].strokes, st.sel_start, p),
                        !.sel_start = NoPoint]
    ELSE st

\* ------------------------------------------------------------------
\* Undo / Redo
\* ------------------------------------------------------------------
\* SetErased for the first listed id only
SetErasedFirst(h, refs, ids, flag) ==
    [r \in 1..Len(h) |->
        IF r \in Range(refs) /\ h[r].id \in Range(SubSeq(ids, 1, 1))
        THEN [h[r] EXCEPT !.erased = flag] ELSE h[r]]

\* set the erased flag of every stroke of the layer whose id is in ids
SetErased(h, refs, ids, flag) ==
    [r \in 1..Len(h) |->
        IF r \in Range(refs) /\ h[r].id \in Range(ids)
        THEN [h[r] EXCEPT !.erased = flag] ELSE h[r]]

\* assign to the stroke _find_stroke_by_id finds for each snapshot the points
\* the snapshot holds: old_pts when old is TRUE, new_pts otherwise
RECURSIVE RestorePoints(_, _, _)
RestorePoints(st, snaps, old) ==
    IF snaps = <<>> THEN st.heap
    ELSE LET r == FindStrokeById(st, Head(snaps).sid)
             pts == IF old THEN Head(snaps).old_pts ELSE Head(snaps).new_pts
             st1 == IF r # NoRef THEN [st EXCEPT !.heap[r].points = pts] ELSE st
         IN RestorePoints(st1, Tail(snaps), old)

\* an undo that gives the number of an undone stroke back to the counter
DoUndoReleaseId(st) ==
    IF st.undo_stack = <<>> THEN st
    ELSE [st EXCEPT !.undo_stack = Front(st.undo_stack),
                    !.redo_stack = Append(st.redo_stack, Last(st.undo_stack)),
                    !.stroke_counter =
                        IF Last(st.undo_stack).type = "AddStroke" /\ @ > 1
                        THEN @ - 1 ELSE @]

\* an undo that moves the top entry to the redo stack whatever it names
DoUndoPushAlways(st) ==
    IF st.undo_stack = <<>> THEN st
    ELSE [st EXCEPT !.undo_stack = Front(st.undo_stack),
                    !.redo_stack = Append(st.redo_stack, Last(st.undo_stack))]

\* undo
DoUndo(st) ==
    IF st.undo_stack = <<>> THEN st
    ELSE
    LET act == Last(st.undo_stack)
        st0 == [st EXCEPT !.undo_stack = Front(st.undo_stack)]
        li == LayerById(st, act.layer_id)
    IN IF li = 0 THEN st0
       ELSE IF act.type = "AddStroke" THEN
            LET refs == st.layers[li].strokes
                k == FirstIdx({j \in 1..Len(refs) :
                                  st.heap[refs[j]].id = st.heap[act.stroke].id})
            IN IF k = 0 THEN st0
               ELSE [st0 EXCEPT !.layers[li].strokes = RemoveAt(refs, k),
                                !.redo_stack = Append(st.redo_stack, act)]
       ELSE IF act.type = "EraseStrokes" THEN
            [st0 EXCEPT !.heap = SetErased(st.heap, st.layers[li].strokes,
                                           act.stroke_ids, FALSE),
                        !.redo_stack = Append(st.redo_stack, act)]
       ELSE
            [st0 EXCEPT !.heap = RestorePoints(st, act.stroke_snapshots, TRUE),
                        !.redo_stack = Append(st.redo_stack, act)]

\* a redo that appends the stroke of an add entry to the current layer when
\* the layer of the entry is gone
DoRedoElsewhere(st) ==
    IF st.redo_stack = <<>> THEN st
    ELSE IF /\ Last(st.redo_stack).type = "AddStroke"
            /\ LayerById(st, Last(st.redo_stack).layer_id) = 0
            /\ CurrentLayer(st) # 0
    THEN [st EXCEPT !.redo_stack = Front(st.redo_stack),
                    !.layers[CurrentLayer(st)].strokes =
                        Append(@, Last(st.redo_stack).stroke)]
    ELSE [st EXCEPT !.redo_stack = Front(st.redo_stack)]

\* a redo that clears the undo stack when there is nothing to redo
DoRedoClearing(st) ==
    IF st.redo_stack = <<>> THEN [st EXCEPT !.undo_stack = <<>>]
    ELSE [st EXCEPT !.redo_stack = Front(st.redo_stack),
                    !.undo_stack = Append(st.undo_stack, Last(st.redo_stack))]

\* redo
DoRedo(st) ==
    IF st.redo_stack = <<>> THEN st
    ELSE
    LET act == Last(st.redo_stack)
        st0 == [st EXCEPT !.redo_stack = Front(st.redo_stack)]
        li == LayerById(st, act.layer_id)
    IN IF li = 0 THEN st0
       ELSE IF act.type = "AddStroke" THEN
            [st0 EXCEPT !.layers[li].strokes = Append(st.layers[li].strokes, act.stroke),
                        !.undo_stack = Append(st.undo_stack, act)]
       ELSE IF act.type = "EraseStrokes" THEN
            [st0 EXCEPT !.heap = SetErased(st.heap, st.layers[li].strokes,
                                           act.stroke_ids, TRUE),
                        !.undo_stack = Append(st.undo_stack, act)]
       ELSE
            [st0 EXCEPT !.heap = RestorePoints(st, act.stroke_snapshots, FALSE),
                        !.undo_stack = Append(st.undo_stack, act)]

\* ------------------------------------------------------------------
\* The .inks text: a sequence of lines, each line the record of its tokens
\*   header                        inkscript 1.0
\*   blank
\*   canvas w h                    canvas 1000 700
\*   background c                  background #0b0d12
\*   layer id name visible         layer id=1 name="Layer 1" visible=true {
\*   draw id                       draw path id=stroke_1 {
\*   cmd c x y                     move 1.00 2.00   (x, y in hundredths)
\*   brace style                   } stroke=#fff strokeWidth=3
\*   erase ref                     erase ref=stroke_1
\*   style style                   stroke=#fff strokeWidth=3
\* A cmd line or a style piece with a field "bad" holds a number that float()
\* rejects (move 1.0 abc, strokeWidth=abc).
\* ------------------------------------------------------------------
Truthy(v) == v # None /\ v # ""

\* "%.2f" % float(x): the nearest multiple of 0.01, as a count of hundredths
\* (no coordinate of the model lies exactly halfway between two of them)
FormatCoord(m) == (m + (MilliPerCent \div 2)) \div MilliPerCent

\* float(text) of a number written with two decimals
ParseCoord(c) == c * MilliPerCent

PointLines(pts) ==
    [k \in 1..Len(pts) |->
        [t |-> "cmd", c |-> (IF k = 1 THEN "move" ELSE "line"),
         x |-> FormatCoord(pts[k][1]), y |-> FormatCoord(pts[k][2])]]

StylePieces(s) ==
    (IF Truthy(s.color) THEN <<[k |-> "stroke", v |-> s.color]>> ELSE <<>>)
    \o (IF Truthy(s.fill) THEN <<[k |-> "fill", v |-> s.fill]>> ELSE <<>>)
    \o <<[k |-> "strokeWidth", v |-> s.width]>>

\* the lines save_inks writes for one stroke
StrokeLines(s) ==
    IF ~s.erased
    THEN <<[t |-> "draw", id |-> s.id]>> \o PointLines(s.points)
         \o <<[t |-> "brace", style |-> StylePieces(s)], [t |-> "blank"]>>
    ELSE <<[t |-> "erase", ref |-> s.id]>>

RECURSIVE StrokesLines(_, _)
StrokesLines(h, refs) ==
    IF refs = <<>> THEN <<>>
    ELSE StrokeLines(h[Head(refs)]) \o StrokesLines(h, Tail(refs))

RECURSIVE LayersLines(_, _)
LayersLines(h, ls) ==
    IF ls = <<>> THEN <<>>
    ELSE <<[t |-> "layer", id |-> Head(ls).id, name |-> Head(ls).name,
            visible |-> (IF Head(ls).visible THEN "true" ELSE "false")]>>
         \o StrokesLines(h, Head(ls).strokes)
         \o <<[t |-> "brace", style |-> <<>>], [t |-> "blank"]>>
         \o LayersLines(h, Tail(ls))

\* save_inks: the text written
SaveLines(st) ==
    <<[t |-> "header"], [t |-> "blank"],
      [t |-> "canvas", w |-> st.width, h |-> st.height],
      [t |-> "background", c |-> st.bg_color], [t |-> "blank"]>>
    \o LayersLines(st.heap, st.layers)

\* parse_style_tokens: the value of key k, None when absent (the last wins)
StyleHas(style, k) == \E i \in 1..Len(style) : style[i].k = k
StyleGet(style, k) ==
    IF StyleHas(style, k)
    THEN style[Max({i \in 1..Len(style) : style[i].k = k})].v
    ELSE None

NoId == [pre |-> None, num |-> 0]

\* float(text) raises ValueError
Unparsable(tok) == "bad" \in DOMAIN tok

\* the piece parse_style_tokens keeps for key k (the last one)
StylePiece(style, k) == style[Max({i \in 1..Len(style) : style[i].k = k})]

\* finish_draw_block raises: int(float(...)) of the width token
WidthRaises(style) ==
    IF StyleHas(style, "strokeWidth") THEN Unparsable(StylePiece(style, "strokeWidth"))
    ELSE StyleHas(style, "width") /\ Unparsable(StylePiece(style, "width"))

\* finish_draw_block leaving stroke_counter as it was
FinishDrawBlockKeepCounter(ps, sid0, pts, style) ==
    IF ps.cur = 0 THEN ps
    ELSE IF WidthRaises(style) THEN [ps EXCEPT !.raised = TRUE]
    ELSE
    LET sid == IF sid0 = NoId THEN StrokeId(ps.stroke_counter) ELSE sid0
        col == IF Truthy(StyleGet(style, "stroke")) THEN StyleGet(style, "stroke")
               ELSE IF Truthy(StyleGet(style, "color")) THEN StyleGet(style, "color")
               ELSE LoadDefaultColor
        fill == StyleGet(style, "fill")
        w == IF StyleHas(style, "strokeWidth") THEN StyleGet(style, "strokeWidth")
             ELSE IF StyleHas(style, "width") THEN StyleGet(style, "width")
             ELSE LoadDefaultWidth
        ref == Len(ps.heap) + 1
    IN [ps EXCEPT !.heap = Append(ps.heap, Stroke(sid, col, w, pts, fill)),
                  !.layers[ps.cur].strokes = Append(ps.layers[ps.cur].strokes, ref)]

\* finish_draw_block
FinishDrawBlock(ps, sid0, pts, style) ==
    IF ps.cur = 0 THEN ps
    ELSE IF WidthRaises(style) THEN [ps EXCEPT !.raised = TRUE]
    ELSE
    LET sid == IF sid0 = NoId THEN StrokeId(ps.stroke_counter) ELSE sid0
        col == IF Truthy(StyleGet(style, "stroke")) THEN StyleGet(style, "stroke")
               ELSE IF Truthy(StyleGet(style, "color")) THEN StyleGet(style, "color")
               ELSE LoadDefaultColor
        fill == StyleGet(style, "fill")
        w == IF StyleHas(style, "strokeWidth") THEN StyleGet(style, "strokeWidth")
             ELSE IF StyleHas(style, "width") THEN StyleGet(style, "width")
             ELSE LoadDefaultWidth
        ref == Len(ps.heap) + 1
    IN [ps EXCEPT !.heap = Append(ps.heap, Stroke(sid, col, w, pts, fill)),
                  !.layers[ps.cur].strokes = Append(ps.layers[ps.cur].strokes, ref),
                  !.stroke_counter =
                      IF sid.pre = "stroke_" /\ sid.num >= ps.stroke_counter
                      THEN sid.num + 1 ELSE ps.stroke_counter]

\* the canvas branch, `self.width = int(parts[1]); self.height = int(parts[2])`
\* in a try: a line carries in `bad` the token int() rejects, "w" (also for a
\* line of fewer than 3 parts) or "h"; with "h" the width is already assigned
\* when the exception is swallowed
LoadCanvas(ps, ln) ==
    IF ~Unparsable(ln) THEN [ps EXCEPT !.width = ln.w, !.height = ln.h]
    ELSE IF ln.bad = "h" THEN [ps EXCEPT !.width = ln.w]
    ELSE ps

\* an iteration that lets the exception of an unparsable coordinate out
LoadLineStrict(ps, ln) ==
    IF ln.t = "blank" THEN ps
    ELSE IF ps.in_draw THEN
        IF ln.t = "brace"
        THEN [FinishDrawBlock(ps, ps.draw_id, ps.draw_pts, ln.style)
                EXCEPT !.in_draw = FALSE, !.draw_id = NoId, !.draw_pts = <<>>]
        ELSE IF ln.t = "cmd" /\ Unparsable(ln) THEN [ps EXCEPT !.raised = TRUE]
        ELSE IF ln.t = "cmd"
        THEN [ps EXCEPT !.draw_pts = Append(@, <<ParseCoord(ln.x), ParseCoord(ln.y)>>)]
        ELSE ps
    ELSE IF ln.t = "canvas" THEN LoadCanvas(ps, ln)
    ELSE IF ln.t = "background" THEN [ps EXCEPT !.bg_color = ln.c]
    ELSE IF ln.t = "layer" THEN
        [ps EXCEPT !.layers = Append(ps.layers, Layer(ln.id, ln.name, ln.visible = "true")),
                   !.cur = Len(ps.layers) + 1,
                   !.layer_counter = IF ln.id >= ps.layer_counter THEN ln.id + 1
                                     ELSE ps.layer_counter]
    ELSE IF ln.t = "brace" THEN [ps EXCEPT !.cur = 0]
    ELSE IF ln.t = "draw" /\ ps.cur # 0 THEN
        [ps EXCEPT !.in_draw = TRUE, !.draw_id = ln.id, !.draw_pts = <<>>]
    ELSE IF ln.t = "erase" /\ ps.cur # 0 THEN
        LET refs == ps.layers[ps.cur].strokes
            k == FirstIdx({j \in 1..Len(refs) : ps.heap[refs[j]].id = ln.ref})
        IN IF k = 0 THEN ps ELSE [ps EXCEPT !.heap[refs[k]].erased = TRUE]
    ELSE ps

\* an iteration whose erase line looks for the id in every layer
LoadLineAnyLayer(ps, ln) ==
    IF ln.t = "blank" THEN ps
    ELSE IF ps.in_draw THEN
        IF ln.t = "brace"
        THEN [FinishDrawBlock(ps, ps.draw_id, ps.draw_pts, ln.style)
                EXCEPT !.in_draw = FALSE, !.draw_id = NoId, !.draw_pts = <<>>]
        ELSE IF ln.t = "cmd" /\ ~Unparsable(ln)
        THEN [ps EXCEPT !.draw_pts = Append(@, <<ParseCoord(ln.x), ParseCoord(ln.y)>>)]
        ELSE ps
    ELSE IF ln.t = "canvas" THEN LoadCanvas(ps, ln)
    ELSE IF ln.t = "background" THEN [ps EXCEPT !.bg_color = ln.c]
    ELSE IF ln.t = "layer" THEN
        [ps EXCEPT !.layers = Append(ps.layers, Layer(ln.id, ln.name, ln.visible = "true")),
                   !.cur = Len(ps.layers) + 1,
                   !.layer_counter = IF ln.id >= ps.layer_counter THEN ln.id + 1
                                     ELSE ps.layer_counter]
    ELSE IF ln.t = "brace" THEN [ps EXCEPT !.cur = 0]
    ELSE IF ln.t = "draw" /\ ps.cur # 0 THEN
        [ps EXCEPT !.in_draw = TRUE, !.draw_id = ln.id, !.draw_pts = <<>>]
    ELSE IF ln.t = "erase" /\ ps.cur # 0 THEN
        LET refs == AllRefs(ps.layers)
            k == FirstIdx({j \in 1..Len(refs) : ps.heap[refs[j]].id = ln.ref})
        IN IF k = 0 THEN ps ELSE [ps EXCEPT !.heap[refs[k]].erased = TRUE]
    ELSE ps

\* one iteration of the loop of _load_from_lines
LoadLine(ps, ln) ==
    IF ln.t = "blank" THEN ps
    ELSE IF ps.in_draw THEN
        IF ln.t = "brace"
        THEN [FinishDrawBlock(ps, ps.draw_id, ps.draw_pts, ln.style)
                EXCEPT !.in_draw = FALSE, !.draw_id = NoId, !.draw_pts = <<>>]
        ELSE IF ln.t = "cmd" /\ ~Unparsable(ln)
        THEN [ps EXCEPT !.draw_pts = Append(@, <<ParseCoord(ln.x), ParseCoord(ln.y)>>)]
        ELSE ps
    ELSE IF ln.t = "canvas" THEN LoadCanvas(ps, ln)
    ELSE IF ln.t = "background" THEN [ps EXCEPT !.bg_color = ln.c]
    ELSE IF ln.t = "layer" THEN
        [ps EXCEPT !.layers = Append(ps.layers, Layer(ln.id, ln.name, ln.visible = "true")),
                   !.cur = Len(ps.layers) + 1,
                   !.layer_counter = IF ln.id >= ps.layer_counter THEN ln.id + 1
                                     ELSE ps.layer_counter]
    ELSE IF ln.t = "brace" THEN [ps EXCEPT !.cur = 0]
    ELSE IF ln.t = "draw" /\ ps.cur # 0 THEN
        [ps EXCEPT !.in_draw = TRUE, !.draw_id = ln.id, !.draw_pts = <<>>]
    ELSE IF ln.t = "erase" /\ ps.cur # 0 THEN
        LET refs == ps.layers[ps.cur].strokes
            k == FirstIdx({j \in 1..Len(refs) : ps.heap[refs[j]].id = ln.ref})
        IN IF k = 0 THEN ps ELSE [ps EXCEPT !.heap[refs[k]].erased = TRUE]
    ELSE ps

RECURSIVE LoadLoop(_, _)
LoadLoop(ps, lines) ==
    IF lines = <<>> \/ ps.raised THEN ps
    ELSE LoadLoop(LoadLine(ps, Head(lines)), Tail(lines))

\* the parse state of _load_from_lines before its first line
LoadStart(st) ==
    [layers |-> <<>>, heap |-> st.heap, layer_counter |-> 1,
     stroke_counter |-> 1, width |-> st.width, height |-> st.height,
     bg_color |-> st.bg_color, cur |-> 0, in_draw |-> FALSE,
     draw_id |-> NoId, draw_pts |-> <<>>, raised |-> FALSE]

\* a load that drops a path block the text ends in
LoadParseDropping(st, lines) ==
    LoadLoop([layers |-> <<>>, heap |-> st.heap, layer_counter |-> 1,
              stroke_counter |-> 1, width |-> st.width, height |-> st.height,
              bg_color |-> st.bg_color, cur |-> 0, in_draw |-> FALSE,
              draw_id |-> NoId, draw_pts |-> <<>>, raised |-> FALSE], lines)

\* _load_from_lines up to its return or to the exception that leaves it
LoadParse(st, lines) ==
    LET ps0 == [layers |-> <<>>, heap |-> st.heap, layer_counter |-> 1,
                stroke_counter |-> 1, width |-> st.width, height |-> st.height,
                bg_color |-> st.bg_color, cur |-> 0, in_draw |-> FALSE,
                draw_id |-> NoId, draw_pts |-> <<>>, raised |-> FALSE]
        ps1 == LoadLoop(ps0, lines)
    IN IF ~ps1.raised /\ ps1.in_draw /\ ps1.draw_pts # <<>>
       THEN FinishDrawBlock(ps1, ps1.draw_id, ps1.draw_pts, <<>>)
       ELSE ps1

\* _load_from_lines raises
LoadRaises(st, lines) == LoadParse(st, lines).raised

\* _load_from_lines, and open_inks around it: the exception is caught and
\* reported, the fields stay as the loop left them
DoLoadFromLines(st, lines) ==
    LET ps == LoadParse(st, lines)
    IN [st EXCEPT !.layers = ps.layers, !.heap = ps.heap,
                  !.layer_counter = ps.layer_counter,
                  !.stroke_counter = ps.stroke_counter,
                  !.width = ps.width, !.height = ps.height,
                  !.bg_color = ps.bg_color]

\* ------------------------------------------------------------------
\* Texts written by hand or by another program: an optional header and up to
\* two layers holding up to MaxBlocks path blocks in all
\* ------------------------------------------------------------------
MaxBlocks == 2

TextStyle == <<[k |-> "stroke", v |-> "#ff0000"], [k |-> "strokeWidth", v |-> 4]>>
BadWidthStyle == <<[k |-> "strokeWidth", v |-> 0, bad |-> TRUE]>>
GoodCmd(c, p) == [t |-> "cmd", c |-> c, x |-> FormatCoord(p[1]), y |-> FormatCoord(p[2])]
BadCmd == [t |-> "cmd", c |-> "line", x |-> 0, y |-> 0, bad |-> TRUE]

BlockKinds == {"tail", "ahead", "badcoord", "badwidth"}
TextIds == {StrokeId(1), StrokeId(2), NoId}

\* one path block
\*   tail      the style tokens follow the closing brace on its line
\*   ahead     the closing brace stands alone, the style tokens on the next line
\*   badcoord  an unparsable line between two valid ones, no style tokens
\*   badwidth  strokeWidth is not a number
BlockLines(sid, kind) ==
    <<[t |-> "draw", id |-> sid], GoodCmd("move", PA)>>
    \o (IF kind = "tail" THEN <<[t |-> "brace", style |-> TextStyle]>>
        ELSE IF kind = "ahead"
        THEN <<[t |-> "brace", style |-> <<>>], [t |-> "style", style |-> TextStyle]>>
        ELSE IF kind = "badcoord"
        THEN <<BadCmd, GoodCmd("line", PB), [t |-> "brace", style |-> <<>>]>>
        ELSE <<[t |-> "brace", style |-> BadWidthStyle]>>)

Blocks == {BlockLines(sid, kind) : sid \in TextIds, kind \in BlockKinds}

\* the bodies of a layer: n blocks one after the other
RECURSIVE BlockSeqs(_)
BlockSeqs(n) ==
    IF n = 0 THEN {<<>>}
    ELSE {b \o rest : b \in Blocks, rest \in BlockSeqs(n - 1)}

LayerText(lid, body) ==
    <<[t |-> "layer", id |-> lid, name |-> LayerName(lid), visible |-> "true"]>>
    \o body \o <<[t |-> "brace", style |-> <<>>]>>

TextLayerIds == {1, 2}

\* the pairs of block counts of a text of two layers
BlockCounts == {c \in (0..MaxBlocks) \X (0..MaxBlocks) : c[1] + c[2] <= MaxBlocks}

Bodies ==
    {<<>>}
    \cup {LayerText(l, b) : l \in TextLayerIds,
                            b \in UNION {BlockSeqs(n) : n \in 0..MaxBlocks}}
    \cup UNION {{LayerText(l1, b1) \o LayerText(l2, b2) :
                    l1 \in TextLayerIds, l2 \in TextLayerIds,
                    b1 \in BlockSeqs(c[1]), b2 \in BlockSeqs(c[2])} :
                 c \in BlockCounts}

Texts == {hdr \o body : hdr \in {<<[t |-> "header"]>>, <<>>}, body \in Bodies}

\* ------------------------------------------------------------------
\* Texts with erase lines, filled paths and an invisible layer, and every
\* text cut after any of its lines, as a write that stopped leaves it
\* ------------------------------------------------------------------
MaxItems == 2

FilledStyle == <<[k |-> "stroke", v |-> "#ff0000"], [k |-> "fill", v |-> "#00ff00"],
                 [k |-> "strokeWidth", v |-> 4]>>

\* a path of two points without style tokens
PlainPath(sid) ==
    <<[t |-> "draw", id |-> sid], GoodCmd("move", PA), GoodCmd("line", PB),
      [t |-> "brace", style |-> <<>>]>>

\* a path of three points with stroke, fill and strokeWidth
FilledPath(sid) ==
    <<[t |-> "draw", id |-> sid], GoodCmd("move", PA), GoodCmd("line", PB),
      GoodCmd("line", PM), [t |-> "brace", style |-> FilledStyle]>>

EraseLine(sid) == <<[t |-> "erase", ref |-> sid]>>

Items ==
    UNION {{PlainPath(sid), FilledPath(sid), EraseLine(sid)} :
              sid \in {StrokeId(1), StrokeId(2)}}

RECURSIVE ItemSeqs(_)
ItemSeqs(n) ==
    IF n = 0 THEN {<<>>}
    ELSE {it \o rest : it \in Items, rest \in ItemSeqs(n - 1)}

LayerTextVis(lid, vis, body) ==
    <<[t |-> "layer", id |-> lid, name |-> LayerName(lid), visible |-> vis]>>
    \o body \o <<[t |-> "brace", style |-> <<>>]>>

ItemCounts == {c \in (0..MaxItems) \X (0..MaxItems) : c[1] + c[2] <= MaxItems}

WholeTexts ==
    {<<[t |-> "header"]>> \o LayerTextVis(1, vis, b) :
        vis \in {"true", "false"}, b \in UNION {ItemSeqs(n) : n \in 0..MaxItems}}
    \cup UNION {{<<[t |-> "header"]>> \o LayerTextVis(1, vis, b1) \o LayerTextVis(2, "true", b2) :
                    vis \in {"true", "false"},
                    b1 \in ItemSeqs(c[1]), b2 \in ItemSeqs(c[2])} :
                 c \in ItemCounts}

CutTexts == UNION {{SubSeq(f, 1, n) : n \in 1..Len(f)} : f \in WholeTexts}

\* ------------------------------------------------------------------
\* Texts with canvas directives of every kind, with or without a background
\* line, and one layer of up to MaxEdgeBlocks path blocks, some without points
\* ------------------------------------------------------------------
MaxEdgeBlocks == 2

\* a path block without any line between the braces
EmptyPath(sid) == <<[t |-> "draw", id |-> sid], [t |-> "brace", style |-> <<>>]>>

\* a path block whose only line is not a valid move or line command
BadOnlyPath(sid) == <<[t |-> "draw", id |-> sid], BadCmd, [t |-> "brace", style |-> TextStyle]>>

\* the lines before the layer: none, a canvas and a background line,
\* `canvas 0 -5`, `canvas abc 500`, `canvas 500 abc`
Directives ==
    {<<>>,
     <<[t |-> "canvas", w |-> 800, h |-> 600], [t |-> "background", c |-> "#ffffff"]>>,
     <<[t |-> "canvas", w |-> 0, h |-> -5]>>,
     <<[t |-> "canvas", w |-> 0, h |-> 500, bad |-> "w"]>>,
     <<[t |-> "canvas", w |-> 500, h |-> 0, bad |-> "h"]>>}

EdgeBlocks == {PlainPath(StrokeId(1)), EmptyPath(StrokeId(2)), BadOnlyPath(StrokeId(2))}

RECURSIVE EdgeSeqs(_)
EdgeSeqs(n) ==
    IF n = 0 THEN {<<>>}
    ELSE {it \o rest : it \in EdgeBlocks, rest \in EdgeSeqs(n - 1)}

EdgeTexts ==
    {<<[t |-> "header"]>> \o d \o LayerTextVis(1, "true", b) :
        d \in Directives,
        b \in UNION {EdgeSeqs(n) : n \in 0..MaxEdgeBlocks}}

\* ------------------------------------------------------------------
\* The renderer's reading of a text (tools/inks_renderer.py).  A colour stays
\* the token of the text; idx is the 1-based index of the next line to read.
\* ------------------------------------------------------------------
RenderDefaultStroke == "#ffffff"
RenderDefaultWidth == 2
RenderDefaultBg == "#000000"

\* the index of the first line at or after idx that is not blank, 0 if none
RECURSIVE NextNonBlank(_, _)
NextNonBlank(lines, idx) ==
    IF idx > Len(lines) THEN 0
    ELSE IF lines[idx].t = "blank" THEN NextNonBlank(lines, idx + 1)
    ELSE idx

\* the line holds '=' and its first word is none of draw, set, layer,
\* transform, erase, canvas, background
LooksLikeStyle(ln) ==
    \/ ln.t = "style"
    \/ ln.t = "brace" /\ ln.style # <<>>

\* the loop of _parse_draw over a path block
RECURSIVE RenderPathLoop(_, _, _)
RenderPathLoop(lines, idx, pts) ==
    IF idx > Len(lines) THEN [idx |-> idx, points |-> pts, style |-> <<>>]
    ELSE LET ln == lines[idx] IN
    IF ln.t = "blank" THEN RenderPathLoop(lines, idx + 1, pts)
    ELSE IF ln.t = "brace" THEN
        IF ln.style # <<>>
        THEN [idx |-> idx + 1, points |-> pts, style |-> ln.style]
        ELSE LET look == NextNonBlank(lines, idx + 1) IN
             IF look # 0 /\ LooksLikeStyle(lines[look])
             THEN [idx |-> look + 1, points |-> pts, style |-> lines[look].style]
             ELSE [idx |-> idx + 1, points |-> pts, style |-> <<>>]
    ELSE IF ln.t = "cmd" /\ ~Unparsable(ln)
    THEN RenderPathLoop(lines, idx + 1,
                        Append(pts, <<ParseCoord(ln.x), ParseCoord(ln.y)>>))
    ELSE RenderPathLoop(lines, idx + 1, pts)

\* _parse_draw, kind path: the command appended to the layer
RenderParseDraw(lines, idx, layer) ==
    LET b == RenderPathLoop(lines, idx, <<>>) IN
    IF StyleHas(b.style, "strokeWidth") /\ Unparsable(StylePiece(b.style, "strokeWidth"))
    THEN [idx |-> b.idx, layer |-> layer, raised |-> TRUE]
    ELSE [idx |-> b.idx, raised |-> FALSE,
          layer |-> [layer EXCEPT !.commands = Append(@,
              [points |-> b.points,
               stroke |-> IF StyleHas(b.style, "stroke") THEN StyleGet(b.style, "stroke")
                          ELSE layer.style.stroke,
               sw |-> IF StyleHas(b.style, "strokeWidth")
                      THEN StyleGet(b.style, "strokeWidth")
                      ELSE layer.style.strokeWidth])]]

\* the loop of _parse_layer
RECURSIVE RenderLayerLoop(_, _, _)
RenderLayerLoop(lines, idx, layer) ==
    IF idx > Len(lines) THEN [idx |-> idx, layer |-> layer, raised |-> FALSE]
    ELSE LET ln == lines[idx] IN
    IF ln.t = "brace" /\ ln.style = <<>>
    THEN [idx |-> idx + 1, layer |-> layer, raised |-> FALSE]
    ELSE IF ln.t = "set" THEN
        \* `_, rest = line.split(None, 1)` raises on a line that is `set` alone
        IF ln.k = None THEN [idx |-> idx + 1, layer |-> layer, raised |-> TRUE]
        ELSE IF ln.k = "stroke"
        THEN RenderLayerLoop(lines, idx + 1, [layer EXCEPT !.style.stroke = ln.v])
        ELSE IF ln.k = "strokeWidth"
        THEN RenderLayerLoop(lines, idx + 1, [layer EXCEPT !.style.strokeWidth = ln.v])
        ELSE RenderLayerLoop(lines, idx + 1, layer)
    ELSE IF ln.t = "draw" THEN
        LET d == RenderParseDraw(lines, idx + 1, layer) IN
        IF d.raised THEN d ELSE RenderLayerLoop(lines, d.idx, d.layer)
    ELSE RenderLayerLoop(lines, idx + 1, layer)

\* _parse_layer
RenderParseLayer(ln, lines, idx) ==
    RenderLayerLoop(lines, idx,
        [id |-> ln.id, name |-> ln.name, visible |-> ln.visible = "true",
         commands |-> <<>>,
         style |-> [stroke |-> RenderDefaultStroke, strokeWidth |-> RenderDefaultWidth]])

\* the loop of _parse after the header
RECURSIVE RenderTopLoop(_, _, _)
RenderTopLoop(lines, idx, rs) ==
    IF idx > Len(lines) THEN rs
    ELSE LET ln == lines[idx] IN
    IF ln.t = "canvas"
    THEN \* `_, w, h = line.split()`, int(w), int(h) outside any try
         IF Unparsable(ln) THEN [rs EXCEPT !.raised = "ValueError"]
         ELSE RenderTopLoop(lines, idx + 1, [rs EXCEPT !.width = ln.w, !.height = ln.h])
    ELSE IF ln.t = "background"
    THEN RenderTopLoop(lines, idx + 1, [rs EXCEPT !.background = ln.c])
    ELSE IF ln.t = "layer" THEN
        LET l == RenderParseLayer(ln, lines, idx + 1) IN
        IF l.raised THEN [rs EXCEPT !.raised = "ValueError"]
        ELSE RenderTopLoop(lines, l.idx, [rs EXCEPT !.layers = Append(@, l.layer)])
    ELSE RenderTopLoop(lines, idx + 1, rs)

\* InksRenderer() then _parse(lines); raised names the error, None without one
RenderParse(lines) ==
    LET rs0 == [width |-> 0, height |-> 0, background |-> RenderDefaultBg,
                layers |-> <<>>, raised |-> None]
        h == NextNonBlank(lines, 1)
    IN IF h = 0 THEN [rs0 EXCEPT !.raised = "Empty file"]
       ELSE IF lines[h].t # "header" THEN [rs0 EXCEPT !.raised = "Invalid header"]
       ELSE RenderTopLoop(lines, h + 1, rs0)

\* InksRenderer.render after _parse: the calls on the image, in order
RenderCalls(rs) ==
    LET calls(l) ==
            IF ~l.visible THEN <<>>
            ELSE LET drawn == SelectSeq(l.commands, LAMBDA c : Len(c.points) > 1)
                 IN [k \in 1..Len(drawn) |->
                        [op |-> "line", points |-> drawn[k].points,
                         fill |-> drawn[k].stroke, width |-> drawn[k].sw]]
        RECURSIVE Cat(_)
        Cat(i) == IF i > Len(rs.layers) THEN <<>> ELSE calls(rs.layers[i]) \o Cat(i + 1)
    IN Cat(1)

\* ------------------------------------------------------------------
\* export_png: the calls on the image, in order.  A colour stays the hex
\* token; a width is in whole units.
\* ------------------------------------------------------------------
ExportDefaultColor == "#000000"

RECURSIVE Flatten(_)
Flatten(ss) == IF ss = <<>> THEN <<>> ELSE Head(ss) \o Flatten(Tail(ss))

\* the calls export_png makes for one stroke
StrokeCalls(s) ==
    IF s.erased \/ s.points = <<>> THEN <<>>
    ELSE LET col == IF Truthy(s.color) THEN s.color ELSE ExportDefaultColor IN
         (IF Truthy(s.fill) /\ Len(s.points) >= 3
          THEN <<[op |-> "polygon", points |-> s.points, fill |-> s.fill]>>
          ELSE <<>>)
         \o (IF Len(s.points) = 1
             THEN <<[op |-> "ellipse", center |-> s.points[1],
                     r |-> Max({Milli, s.width * HalfMilli}), fill |-> col]>>
             ELSE <<[op |-> "line", points |-> s.points, fill |-> col,
                     width |-> s.width]>>)

LayerCalls(st, l) ==
    IF ~l.visible THEN <<>>
    ELSE Flatten([j \in 1..Len(l.strokes) |-> StrokeCalls(st.heap[l.strokes[j]])])

\* an export that paints the layers in storage order
ExportCallsTopFirst(st) ==
    Flatten([i \in 1..Len(st.layers) |-> LayerCalls(st, st.layers[i])])

\* export_png
ExportCalls(st) ==
    Flatten([i \in 1..Len(st.layers) |->
                LayerCalls(st, st.layers[Len(st.layers) + 1 - i])])

\* ------------------------------------------------------------------
\* Object identity: the heap keeps exactly the strokes something refers to,
\* numbered in the order layers, active stroke, selection, undo log, redo log
\* ------------------------------------------------------------------
RECURSIVE EntryRefs(_)
EntryRefs(stack) ==
    IF stack = <<>> THEN <<>>
    ELSE (IF Head(stack).type = "AddStroke" THEN <<Head(stack).stroke>> ELSE <<>>)
         \o EntryRefs(Tail(stack))

RECURSIVE Dedup(_, _)
Dedup(q, seen) ==
    IF q = <<>> THEN <<>>
    ELSE IF Head(q) \in seen THEN Dedup(Tail(q), seen)
    ELSE <<Head(q)>> \o Dedup(Tail(q), seen \cup {Head(q)})

LiveRefs(st) ==
    Dedup(AllRefs(st.layers)
          \o (IF st.active_stroke # NoRef THEN <<st.active_stroke>> ELSE <<>>)
          \o st.selected_strokes
          \o EntryRefs(st.undo_stack) \o EntryRefs(st.redo_stack), {})

Collect(st) ==
    LET live == LiveRefs(st)
        new(r) == IF r = NoRef THEN NoRef ELSE FirstIdx({j \in 1..Len(live) : live[j] = r})
        mapSeq(q) == [k \in 1..Len(q) |-> new(q[k])]
        mapStack(stack) == [k \in 1..Len(stack) |->
                               [stack[k] EXCEPT !.stroke = new(stack[k].stroke)]]
    IN [st EXCEPT !.heap = [k \in 1..Len(live) |-> st.heap[live[k]]],
                  !.layers = [k \in 1..Len(st.layers) |->
                                 [st.layers[k] EXCEPT !.strokes = mapSeq(@)]],
                  !.active_stroke = new(st.active_stroke),
                  !.selected_strokes = mapSeq(st.selected_strokes),
                  !.undo_stack = mapStack(st.undo_stack),
                  !.redo_stack = mapStack(st.redo_stack)]

\* ------------------------------------------------------------------
\* The state machine
\* ------------------------------------------------------------------
\* the bounds of a specification
Bounds == [strokes |-> MaxStrokes, layers |-> MaxLayers, hist |-> MaxHist,
           pts |-> MaxPts]
BoundsAll == [Bounds EXCEPT !.pts = MaxPtsAll]
BoundsErase == [Bounds EXCEPT !.hist = MaxHistErase]
BoundsLoad == [Bounds EXCEPT !.strokes = MaxStrokesLoad, !.layers = MaxLayersLoad,
                             !.hist = MaxHistLoad, !.pts = MaxPtsAll]

\* the largest coordinate within the bounds b
CoordOf(b) == IF "coord" \in DOMAIN b THEN b.coord ELSE CoordMax

\* the state within the bounds b
InBounds(st, b) ==
    /\ st.stroke_counter <= b.strokes + 1
    /\ st.layer_counter <= b.layers + 1
    /\ Len(st.undo_stack) <= b.hist
    /\ Len(st.active_eraser.points) <= b.pts
    /\ \A r \in 1..Len(st.heap) :
         /\ r = st.active_stroke => Len(st.heap[r].points) <= b.pts
         /\ \A j \in 1..Len(st.heap[r].points) :
              /\ st.heap[r].points[j][1] \in 0..CoordOf(b)
              /\ st.heap[r].points[j][2] \in 0..CoordOf(b)

Become(st) ==
    \E c \in {Collect(st)} :
       /\ layers' = c.layers
       /\ heap' = c.heap
       /\ layer_counter' = c.layer_counter
       /\ stroke_counter' = c.stroke_counter
       /\ current_layer_index' = c.current_layer_index
       /\ tool' = c.tool
       /\ color' = c.color
       /\ undo_stack' = c.undo_stack
       /\ redo_stack' = c.redo_stack
       /\ selected_strokes' = c.selected_strokes
       /\ moving_selection' = c.moving_selection
       /\ move_snapshots' = c.move_snapshots
       /\ move_last' = c.move_last
       /\ sel_start' = c.sel_start
       /\ active_stroke' = c.active_stroke
       /\ active_eraser' = c.active_eraser
       /\ shape_start' = c.shape_start
       /\ width' = c.width
       /\ height' = c.height
       /\ bg_color' = c.bg_color

\* InkPaint.__init__ followed by new_document
InitSt ==
    DoNewDocument(
      [layers |-> <<>>, heap |-> <<>>, layer_counter |-> 1, stroke_counter |-> 1,
       current_layer_index |-> 0, tool |-> "brush", color |-> DefaultColor,
       undo_stack |-> <<>>, redo_stack |-> <<>>, selected_strokes |-> <<>>,
       moving_selection |-> FALSE, move_snapshots |-> <<>>, move_last |-> NoPoint,
       sel_start |-> NoPoint, active_stroke |-> NoRef, active_eraser |-> NoEraser,
       shape_start |-> NoPoint, width |-> DefaultWidth, height |-> DefaultHeight,
       bg_color |-> DefaultBg])

\* the editor after construction, f the content of the file at the path used
InitWith(f) ==
    /\ layers = InitSt.layers
    /\ heap = InitSt.heap
    /\ layer_counter = InitSt.layer_counter
    /\ stroke_counter = InitSt.stroke_counter
    /\ current_layer_index = InitSt.current_layer_index
    /\ tool = InitSt.tool
    /\ color = InitSt.color
    /\ undo_stack = InitSt.undo_stack
    /\ redo_stack = InitSt.redo_stack
    /\ selected_strokes = InitSt.selected_strokes
    /\ moving_selection = InitSt.moving_selection
    /\ move_snapshots = InitSt.move_snapshots
    /\ move_last = InitSt.move_last
    /\ sel_start = InitSt.sel_start
    /\ active_stroke = InitSt.active_stroke
    /\ active_eraser = InitSt.active_eraser
    /\ shape_start = InitSt.shape_start
    /\ width = InitSt.width
    /\ height = InitSt.height
    /\ bg_color = InitSt.bg_color
    /\ pressed = FALSE
    /\ file = f

Init == InitWith(<<>>)

\* One user command at a time: while button 1 is held the only events are
\* pointer motion and the release.
NewDocument ==
    ~pressed /\ Become(DoNewDocument(St)) /\ UNCHANGED <<pressed, file>>
AddLayer(b) ==
    /\ ~pressed
    /\ \E st \in {DoAddLayer(St)} : InBounds(st, b) /\ Become(st)
    /\ UNCHANGED <<pressed, file>>
RemoveLayer ==
    ~pressed /\ Become(DoRemoveLayer(St)) /\ UNCHANGED <<pressed, file>>
MoveLayerUp ==
    ~pressed /\ Become(DoMoveLayerUp(St)) /\ UNCHANGED <<pressed, file>>
MoveLayerDown ==
    ~pressed /\ Become(DoMoveLayerDown(St)) /\ UNCHANGED <<pressed, file>>
ToggleLayerVisibility ==
    ~pressed /\ Become(DoToggleLayerVisibility(St)) /\ UNCHANGED <<pressed, file>>
ClearCurrentLayer(b) ==
    /\ ~pressed
    /\ \E st \in {DoClearCurrentLayer(St)} : InBounds(st, b) /\ Become(st)
    /\ UNCHANGED <<pressed, file>>
LayerSelect ==
    /\ ~pressed
    /\ \E sel \in 0..(Len(layers) - 1) : Become(DoLayerSelect(St, sel))
    /\ UNCHANGED <<pressed, file>>
SetTool(T) ==
    /\ ~pressed
    /\ \E t \in T : Become(DoSetTool(St, t))
    /\ UNCHANGED <<pressed, file>>
PickColor ==
    /\ ~pressed
    /\ \E c \in Palette \cup {None} : Become(DoPickColor(St, c))
    /\ UNCHANGED <<pressed, file>>
\* <ButtonPress-1>, <B1-Motion>, <ButtonRelease-1>
PointerDown(b) ==
    /\ ~pressed
    /\ \E p \in Pts : \E st \in {DoPointerDown(St, p)} : InBounds(st, b) /\ Become(st)
    /\ pressed' = TRUE
    /\ UNCHANGED file
Eyedropper ==
    /\ ~pressed
    /\ \E p \in Pts : Become(DoEyedropper(St, p))
    /\ pressed' = TRUE
    /\ UNCHANGED file
PointerMove(b) ==
    /\ pressed
    /\ \E p \in Pts : \E st \in {DoPointerMove(St, p)} : InBounds(st, b) /\ Become(st)
    /\ UNCHANGED <<pressed, file>>
PointerUp(b) ==
    /\ pressed
    /\ \E p \in Pts : \E st \in {DoPointerUp(St, p)} : InBounds(st, b) /\ Become(st)
    /\ pressed' = FALSE
    /\ UNCHANGED file
\* the press and the motion at a point of P
PointerDownAt(P, b) ==
    /\ ~pressed
    /\ \E p \in P : \E st \in {DoPointerDown(St, p)} : InBounds(st, b) /\ Become(st)
    /\ pressed' = TRUE
    /\ UNCHANGED file
PointerMoveAt(P, b) ==
    /\ pressed
    /\ \E p \in P : \E st \in {DoPointerMove(St, p)} : InBounds(st, b) /\ Become(st)
    /\ UNCHANGED <<pressed, file>>
PointerUpAt(P, b) ==
    /\ pressed
    /\ \E p \in P : \E st \in {DoPointerUp(St, p)} : InBounds(st, b) /\ Become(st)
    /\ pressed' = FALSE
    /\ UNCHANGED file
Undo == ~pressed /\ Become(DoUndo(St)) /\ UNCHANGED <<pressed, file>>
Redo == ~pressed /\ Become(DoRedo(St)) /\ UNCHANGED <<pressed, file>>
\* save_inks with a path chosen in the dialog
SaveInks ==
    /\ ~pressed
    /\ file' = SaveLines(St)
    /\ UNCHANGED <<layers, heap, layer_counter, stroke_counter,
                   current_layer_index, tool, color, undo_stack, redo_stack,
                   selected_strokes, moving_selection, move_snapshots,
                   move_last, sel_start, active_stroke, active_eraser,
                   shape_start, width, height, bg_color, pressed>>
\* what a save leaves at its path when it stops after n lines: open(path, "w")
\* has emptied the file, and the lines went into it one write after the other
InterruptedWrite(st, n) == SubSeq(SaveLines(st), 1, n)

\* save_inks stopped by an exception or by the end of the process before its
\* last write
SaveInksInterrupted ==
    /\ ~pressed
    /\ \E n \in 0..(Len(SaveLines(St)) - 1) : file' = InterruptedWrite(St, n)
    /\ UNCHANGED <<layers, heap, layer_counter, stroke_counter,
                   current_layer_index, tool, color, undo_stack, redo_stack,
                   selected_strokes, moving_selection, move_snapshots,
                   move_last, sel_start, active_stroke, active_eraser,
                   shape_start, width, height, bg_color, pressed>>

\* _do_autosave, a timer callback: file is the file at AUTOSAVE_FILENAME
Autosave ==
    /\ file' = SaveLines(St)
    /\ UNCHANGED <<layers, heap, layer_counter, stroke_counter,
                   current_layer_index, tool, color, undo_stack, redo_stack,
                   selected_strokes, moving_selection, move_snapshots,
                   move_last, sel_start, active_stroke, active_eraser,
                   shape_start, width, height, bg_color, pressed>>

\* _do_autosave stopped before its last write
AutosaveInterrupted ==
    /\ \E n \in 0..(Len(SaveLines(St)) - 1) : file' = InterruptedWrite(St, n)
    /\ UNCHANGED <<layers, heap, layer_counter, stroke_counter,
                   current_layer_index, tool, color, undo_stack, redo_stack,
                   selected_strokes, moving_selection, move_snapshots,
                   move_last, sel_start, active_stroke, active_eraser,
                   shape_start, width, height, bg_color, pressed>>

\* save_inks of a document of at most n strokes
SaveInksUpTo(n) ==
    /\ Len(AllRefs(layers)) <= n
    /\ SaveInks

\* A tool key (bind_all) and a change of the listbox selection by the
\* keyboard arrive whether or not button 1 is held on the canvas.
KeySetTool(T) ==
    /\ \E t \in T : Become(DoSetTool(St, t))
    /\ UNCHANGED <<pressed, file>>
KeyLayerSelect ==
    /\ \E sel \in 0..(Len(layers) - 1) : Become(DoLayerSelect(St, sel))
    /\ UNCHANGED <<pressed, file>>

\* open_inks on one of the files F
OpenInksOf(F) ==
    /\ ~pressed
    /\ \E f \in F : Become(DoLoadFromLines(St, f)) /\ file' = f
    /\ UNCHANGED pressed

\* open_inks on the file written before
OpenInks ==
    /\ ~pressed
    /\ file # <<>>
    /\ Become(DoLoadFromLines(St, file))
    /\ UNCHANGED <<pressed, file>>

\* Drawing, erasing, filling and the history, on the layer of a new document.
Next ==
    \/ SetTool(DrawTools) \/ PointerDown(Bounds) \/ PointerMove(Bounds)
    \/ PointerUp(Bounds) \/ Undo \/ Redo \/ RemoveLayer
    \/ ClearCurrentLayer(Bounds) \/ NewDocument

Spec == Init /\ [][Next]_vars

\* Every tool, with strokes of MaxPtsAll points.
NextAll ==
    \/ SetTool(Tools) \/ PointerDown(BoundsAll) \/ PointerMove(BoundsAll)
    \/ PointerUp(BoundsAll) \/ Undo \/ Redo \/ ClearCurrentLayer(BoundsAll)

SpecAll == Init /\ [][NextAll]_vars

\* Drawing and selecting across new documents.
NextSelect ==
    \/ SetTool({"brush", "select"}) \/ PointerDown(Bounds)
    \/ PointerMove(Bounds) \/ PointerUp(Bounds) \/ Undo \/ Redo
    \/ NewDocument

SpecSelect == Init /\ [][NextSelect]_vars

\* Drawing, erasing and moving on two layers that come and go.
NextLayers ==
    \/ SetTool({"brush", "eraser", "select"}) \/ PointerDown(BoundsAll)
    \/ PointerMove(BoundsAll) \/ PointerUp(BoundsAll) \/ Undo \/ Redo
    \/ AddLayer(BoundsAll) \/ RemoveLayer \/ LayerSelect
    \/ ClearCurrentLayer(BoundsAll)

SpecLayers == Init /\ [][NextLayers]_vars

\* Drawing and erasing with a history of MaxHistErase entries.
NextErase ==
    \/ SetTool({"brush", "eraser"}) \/ PointerDown(BoundsErase)
    \/ PointerMove(BoundsErase) \/ PointerUp(BoundsErase) \/ Undo \/ Redo

SpecErase == Init /\ [][NextErase]_vars

\* Drawing a stroke, adding layers and opening a text of Texts, in any order.
InitLoad == \E f \in Texts : InitWith(f)

NextLoad ==
    \/ OpenInks \/ PointerDown(BoundsLoad) \/ PointerUp(BoundsLoad)
    \/ AddLayer(BoundsLoad)

SpecLoad == InitLoad /\ [][NextLoad]_vars

\* Drawing a stroke and opening a text of CutTexts, in any order.
InitCut == \E f \in CutTexts : InitWith(f)

NextCut == OpenInks \/ PointerDown(BoundsLoad) \/ PointerUp(BoundsLoad)

SpecCut == InitCut /\ [][NextCut]_vars

\* Drawing with the brush, the history, saving and reopening the saved file.
NextReopen ==
    \/ PointerDown(Bounds) \/ PointerUp(Bounds) \/ Undo \/ Redo
    \/ SaveInksUpTo(MaxStrokes) \/ OpenInks

SpecReopen == Init /\ [][NextReopen]_vars

\* Drawing with the brush and writing the document to one path, by save_inks
\* or by the autosave timer, each write complete or stopped on the way.
NextSave ==
    \/ PointerDown(Bounds) \/ PointerMove(Bounds) \/ PointerUp(Bounds)
    \/ SaveInks \/ SaveInksInterrupted \/ Autosave \/ AutosaveInterrupted

SpecSave == Init /\ [][NextSave]_vars

\* Drawing and erasing in two colours, saving and reopening.
NextFile ==
    \/ SetTool({"brush", "eraser"}) \/ PickColor \/ PointerDown(Bounds)
    \/ PointerMove(Bounds) \/ PointerUp(Bounds) \/ SaveInks \/ OpenInks

SpecFile == Init /\ [][NextFile]_vars

\* Shapes, the eraser and the fill on a layer that is shown and hidden.
NextHidden ==
    \/ SetTool({"rect", "eraser", "fill"}) \/ PointerDown(BoundsAll)
    \/ PointerMove(BoundsAll) \/ PointerUp(BoundsAll) \/ Undo
    \/ ToggleLayerVisibility

SpecHidden == Init /\ [][NextHidden]_vars

\* One brush stroke over up to MaxVertices points of a 3 x 3 grid, and fill
\* clicks at the points of the grid.
MaxVertices == 4
PolyPts == {<<x, y>> : x \in {0, 12000, 24000}, y \in {0, 12000, 24000}}
BoundsPoly == [strokes |-> 1, layers |-> 1, hist |-> 2, pts |-> MaxVertices]

NextPoly ==
    \/ SetTool({"brush", "fill"}) \/ PointerDownAt(PolyPts, BoundsPoly)
    \/ PointerMoveAt(PolyPts, BoundsPoly) \/ PointerUp(BoundsPoly)

SpecPoly == Init /\ [][NextPoly]_vars

\* Ellipses and rectangles between points up to 110 apart.
EllipseCoordMax == 110000
EllipsePts ==
    {<<0, 0>>, <<24000, 24000>>, <<106000, 24000>>, <<110000, 24000>>, <<108000, 0>>}
BoundsEllipse == [strokes |-> MaxStrokes, layers |-> 1, hist |-> MaxHist,
                  pts |-> MaxPtsAll, coord |-> EllipseCoordMax]

NextEllipse ==
    \/ SetTool({"ellipse", "rect"}) \/ PointerDownAt(EllipsePts, BoundsEllipse)
    \/ PointerUpAt(EllipsePts, BoundsEllipse) \/ Undo \/ Redo

SpecEllipse == Init /\ [][NextEllipse]_vars

\* Up to MaxLayersOrder layers added, removed, reordered and selected, brush
\* strokes on them, saving and reopening.
MaxLayersOrder == 3
BoundsOrder == [strokes |-> MaxStrokes, layers |-> MaxLayersOrder, hist |-> MaxHist,
                pts |-> MaxPtsAll]

NextOrder ==
    \/ AddLayer(BoundsOrder) \/ RemoveLayer \/ MoveLayerUp \/ MoveLayerDown
    \/ LayerSelect \/ PointerDown(BoundsOrder) \/ PointerUp(BoundsOrder)
    \/ SaveInks \/ OpenInks

SpecOrder == Init /\ [][NextOrder]_vars

\* Opening the texts of EdgeTexts one after another, and the brush.
NextEdge ==
    \/ OpenInksOf(EdgeTexts) \/ PointerDown(BoundsLoad) \/ PointerUp(BoundsLoad)
    \/ Undo \/ Redo

SpecEdge == Init /\ [][NextEdge]_vars

\* Brush gestures on two layers with tool keys and layer selections at any
\* moment, also between the press and the release.
NextKeys ==
    \/ KeySetTool({"brush", "eraser"}) \/ KeyLayerSelect \/ AddLayer(BoundsAll)
    \/ PointerDown(BoundsAll) \/ PointerMove(BoundsAll) \/ PointerUp(BoundsAll)
    \/ Undo

SpecKeys == Init /\ [][NextKeys]_vars

\* Drawing and erasing at one point, the history, saving a document of at
\* most one stroke and reopening it.
NextEraseFile ==
    \/ SetTool({"brush", "eraser"}) \/ PointerDownAt({PA}, BoundsAll)
    \/ PointerUpAt({PA}, BoundsAll) \/ Undo \/ Redo \/ SaveInksUpTo(1)
    \/ OpenInks

SpecEraseFile == Init /\ [][NextEraseFile]_vars

\* the document: every layer with its strokes by value
Doc(st) ==
    [k \in 1..Len(st.layers) |->
        [id |-> st.layers[k].id, name |-> st.layers[k].name,
         visible |-> st.layers[k].visible,
         strokes |-> [j \in 1..Len(st.layers[k].strokes) |->
                         st.heap[st.layers[k].strokes[j]]]]]

\* the strokes of the document by reference, and the layer of each
DocRefs(st) == Range(AllRefs(st.layers))

\* save_inks followed by open_inks of the file written
Reload(st) == DoLoadFromLines(st, SaveLines(st))

\* ------------------------------------------------------------------
\* Save and reload
\* ------------------------------------------------------------------
\* C1: loading the text save_inks writes yields a document equal to the saved
\* one field for field: layer ids, names, visibility and order, and every
\* stroke, erased ones included, with its id, position, color, fill, width,
\* erased flag and points.  (Every coordinate of the model is a whole number
\* of hundredths.)
C1_RoundTrip == Doc(Reload(St)) = Doc(St)

\* C2: a stroke that is erased when the document is saved is, after the file
\* is loaded again, a stroke of the same layer with the same id whose erased
\* flag is true.
C2_EraseSurvivesReload ==
    \A k \in 1..Len(layers) : \A j \in 1..Len(layers[k].strokes) :
        heap[layers[k].strokes[j]].erased =>
            /\ k <= Len(Reload(St).layers)
            /\ \E r \in Range(Reload(St).layers[k].strokes) :
                  /\ Reload(St).heap[r].id = heap[layers[k].strokes[j]].id
                  /\ Reload(St).heap[r].erased

\* ------------------------------------------------------------------
\* Undo and redo of one operation
\* ------------------------------------------------------------------
\* one gesture with tool t: press at p, drag to q, release at q
Gesture(st, t, p, q) ==
    DoPointerUp(DoPointerMove(DoPointerDown(DoSetTool(st, t), p), q), q)

\* the operation recorded one entry
Recorded(st, s1) == Len(s1.undo_stack) = Len(st.undo_stack) + 1

\* C3: undo() right after an operation of any kind (a brush stroke, a shape,
\* an eraser gesture, a selection move, a fill click) restores the document
\* as it was before the operation: the same layers, the same strokes in the
\* same order, each with the same points, color, width, fill and erased flag.
C3_UndoInverse ==
    ~pressed =>
        \A t \in Tools : \A p \in AllPts : \A q \in AllPts :
            Recorded(St, Gesture(St, t, p, q)) =>
                Doc(DoUndo(Gesture(St, t, p, q))) = Doc(St)

\* C4: an operation of any kind, then undo(), then redo() yields the document
\* as it was right after the operation, the order of the strokes of every
\* layer included.
C4_RedoInverse ==
    ~pressed =>
        \A t \in Tools : \A p \in AllPts : \A q \in AllPts :
            Recorded(St, Gesture(St, t, p, q)) =>
                Doc(DoRedo(DoUndo(Gesture(St, t, p, q)))) =
                    Doc(Gesture(St, t, p, q))

\* C5: after a fill click has set the fill of a stroke, undo() leaves that
\* stroke at its position in its layer, with the fill it had before the click
\* and everything else of it as the click left it.
C5_FillUndo ==
    ~pressed =>
        \A c \in Palette : \A p \in AllPts :
            LET s0 == DoSetTool(DoPickColor(St, c), "fill")
                r  == FillTarget(s0, p)
                s2 == DoUndo(DoPointerDown(s0, p))
            IN r # NoRef =>
                  /\ s2.layers = layers
                  /\ s2.heap[r] = heap[r]

\* ------------------------------------------------------------------
\* Eraser gestures
\* ------------------------------------------------------------------
\* the strokes an operation from st to s1 marked erased
NewlyErased(st, s1) ==
    {r \in DocRefs(st) : ~st.heap[r].erased /\ s1.heap[r].erased}

\* C6: one eraser gesture that hits k >= 1 strokes pushes exactly one undo
\* entry, and one undo() makes all k strokes not erased again, each with the
\* points, color, width and fill it had before the gesture.
C6_EraserGestureOneEntry ==
    ~pressed =>
        \A p \in AllPts : \A q \in AllPts :
            LET s1 == Gesture(St, "eraser", p, q) IN
            NewlyErased(St, s1) # {} =>
                /\ Len(s1.undo_stack) = Len(undo_stack) + 1
                /\ Front(s1.undo_stack) = undo_stack
                /\ \A r \in NewlyErased(St, s1) :
                      /\ ~DoUndo(s1).heap[r].erased
                      /\ DoUndo(s1).heap[r] = heap[r]

\* an eraser gesture that hit two strokes has been undone: its entry, listing
\* both, is the top of the redo stack and no stroke is erased
C6_Witness ==
    /\ ~pressed
    /\ redo_stack # <<>>
    /\ Last(redo_stack).type = "EraseStrokes"
    /\ Len(Last(redo_stack).stroke_ids) = 2
    /\ Cardinality(DocRefs(St)) = 2
    /\ \A r \in DocRefs(St) : ~heap[r].erased

\* ------------------------------------------------------------------
\* Selection moves
\* ------------------------------------------------------------------
\* C7: after a selection move is committed, undo() sets the points of every
\* moved stroke to its points before the drag and redo() to its points at the
\* release, and neither changes the points of a stroke of the document that
\* was not part of the move.
C7_MoveUndoRedo ==
    ~pressed =>
        \A p \in AllPts : \A q \in AllPts :
            LET s1 == DoPointerDown(DoSetTool(St, "select"), p)
                s3 == DoPointerUp(DoPointerMove(s1, q), q)
                s4 == DoUndo(s3)
                s5 == DoRedo(s4)
            IN s1.moving_selection =>
                  \A r \in DocRefs(St) :
                      IF r \in Range(selected_strokes)
                      THEN /\ s4.heap[r].points = heap[r].points
                           /\ s5.heap[r].points = s3.heap[r].points
                      ELSE /\ s4.heap[r].points = s3.heap[r].points
                           /\ s5.heap[r].points = s4.heap[r].points

\* ------------------------------------------------------------------
\* The two stacks
\* ------------------------------------------------------------------
\* C8: after an undo, a forward action that changes the document (a brush
\* stroke, a shape, an eraser gesture that hits, a selection move, a fill
\* click, clearing the layer) leaves the redo stack empty, and a redo() issued
\* afterwards changes nothing.
C8_RedoInvalidation ==
    (~pressed /\ undo_stack # <<>>) =>
        /\ \A t \in Tools : \A p \in AllPts : \A q \in AllPts :
              LET s1 == Gesture(DoUndo(St), t, p, q) IN
              Doc(s1) # Doc(DoUndo(St)) =>
                  s1.redo_stack = <<>> /\ DoRedo(s1) = s1
        /\ LET s1 == DoClearCurrentLayer(DoUndo(St)) IN
              Doc(s1) # Doc(DoUndo(St)) =>
                  s1.redo_stack = <<>> /\ DoRedo(s1) = s1

\* the first stroke was undone and a second one drawn: the entry of the second
\* is the only one left
C8_Witness ==
    /\ ~pressed
    /\ redo_stack = <<>>
    /\ Len(undo_stack) = 1
    /\ undo_stack[1].type = "AddStroke"
    /\ heap[undo_stack[1].stroke].id = StrokeId(2)

\* undo() keeps the entry it pops: its layer exists and, for an add entry, a
\* stroke with the id of its stroke is in that layer
UndoKeeps(st) ==
    LET act == Last(st.undo_stack)
        li == LayerById(st, act.layer_id)
    IN /\ li # 0
       /\ act.type = "AddStroke" =>
             \E r \in Range(st.layers[li].strokes) :
                 st.heap[r].id = st.heap[act.stroke].id

\* redo() keeps the entry it pops: its layer exists
RedoKeeps(st) == LayerById(st, Last(st.redo_stack).layer_id) # 0

\* C9 as stated: undo() removes the top entry of the undo stack and that entry
\* becomes the top of the redo stack; redo() is the mirror; the two stacks
\* together hold as many entries after as before.
C9_MovesOneEntry ==
    /\ undo_stack # <<>> =>
          /\ DoUndo(St).undo_stack = Front(undo_stack)
          /\ DoUndo(St).redo_stack = Append(redo_stack, Last(undo_stack))
    /\ redo_stack # <<>> =>
          /\ DoRedo(St).redo_stack = Front(redo_stack)
          /\ DoRedo(St).undo_stack = Append(undo_stack, Last(redo_stack))

\* C9, amended: undo() removes the top entry of the undo stack; the entry
\* becomes the top of the redo stack when its layer still exists and, for an
\* add entry, a stroke with its id is still in that layer, and is discarded
\* otherwise.  redo() removes the top entry of the redo stack; it becomes the
\* top of the undo stack when its layer still exists and is discarded
\* otherwise.  The two stacks together hold as many entries or one fewer.
C9_MovesOrDiscards ==
    /\ undo_stack # <<>> =>
          /\ DoUndo(St).undo_stack = Front(undo_stack)
          /\ DoUndo(St).redo_stack =
                 IF UndoKeeps(St) THEN Append(redo_stack, Last(undo_stack))
                 ELSE redo_stack
    /\ redo_stack # <<>> =>
          /\ DoRedo(St).redo_stack = Front(redo_stack)
          /\ DoRedo(St).undo_stack =
                 IF RedoKeeps(St) THEN Append(undo_stack, Last(redo_stack))
                 ELSE undo_stack

\* a stroke was drawn, its layer removed and its entry discarded by undo():
\* no layer and no entry is left
C9_Witness ==
    /\ ~pressed
    /\ layers = <<>>
    /\ undo_stack = <<>>
    /\ redo_stack = <<>>
    /\ stroke_counter > 1

\* C10: undo() with an empty undo stack and redo() with an empty redo stack
\* leave the layers, every stroke and both stacks as they are.
C10_EmptyNoOp ==
    /\ undo_stack = <<>> => DoUndo(St) = St
    /\ redo_stack = <<>> => DoRedo(St) = St

\* everything has been undone: the undo stack is empty, the redo stack is not
C10_Witness ==
    /\ ~pressed
    /\ undo_stack = <<>>
    /\ redo_stack # <<>>
    /\ DoUndo(St) = St

\* ------------------------------------------------------------------
\* Entries whose layer or strokes are gone
\* ------------------------------------------------------------------
\* the ids of the strokes an entry names
EntryIds(st, act) ==
    IF act.type = "AddStroke" THEN {st.heap[act.stroke].id}
    ELSE IF act.type = "EraseStrokes" THEN Range(act.stroke_ids)
    ELSE {act.stroke_snapshots[k].sid : k \in 1..Len(act.stroke_snapshots)}

\* the ids of the strokes of the document
DocIds(st) == {st.heap[r].id : r \in DocRefs(st)}

\* the layer of the entry has been removed, or none of its strokes is in the
\* document any more
TargetGone(st, act) ==
    \/ LayerById(st, act.layer_id) = 0
    \/ EntryIds(st, act) \cap DocIds(st) = {}

\* C11: undo() of an entry whose layer has been removed, or whose strokes are
\* no longer in the document, leaves every stroke of every remaining layer as
\* it is; so does redo() of such an erase or move entry and of any entry whose
\* layer has been removed.  (redo() of an add entry carries the stroke it
\* appends: that the stroke is not in the layer is its normal case.)
C11_GoneTargetsNoOp ==
    /\ (undo_stack # <<>> /\ TargetGone(St, Last(undo_stack))) =>
           Doc(DoUndo(St)) = Doc(St)
    /\ (/\ redo_stack # <<>>
        /\ TargetGone(St, Last(redo_stack))
        /\ \/ Last(redo_stack).type # "AddStroke"
           \/ LayerById(St, Last(redo_stack).layer_id) = 0) =>
           Doc(DoRedo(St)) = Doc(St)

\* a stroke was drawn on each of two layers, the second layer removed and the
\* entry of its stroke undone: the first layer and its stroke remain
C11_Witness ==
    /\ ~pressed
    /\ Len(layers) = 1
    /\ layer_counter = 3
    /\ stroke_counter = 3
    /\ Cardinality(DocRefs(St)) = 1
    /\ Len(undo_stack) = 1
    /\ redo_stack = <<>>

\* the places of the document holding a stroke: layer index and position
Slots(st) ==
    UNION {{<<i, j>> : j \in 1..Len(st.layers[i].strokes)} : i \in 1..Len(st.layers)}

SlotId(st, sl) == st.heap[st.layers[sl[1]].strokes[sl[2]]].id

\* C12: no two strokes of the document, in one layer or in two, have the
\* same id.
C12_UniqueStrokeIds ==
    \A a \in Slots(St), b \in Slots(St) : SlotId(St, a) = SlotId(St, b) => a = b

\* the ids of the layers, in list order
LayerIds(st) == [k \in 1..Len(st.layers) |-> st.layers[k].id]

\* the ids that layers were given are all below the counter, add_layer gives
\* the counter's value and leaves the other ids alone, remove_layer and the
\* reordering commands change no id and keep the counter
LayerIdsStable(st) ==
    /\ \A k \in 1..Len(st.layers) : st.layers[k].id < st.layer_counter
    /\ LayerIds(DoAddLayer(st)) = <<st.layer_counter>> \o LayerIds(st)
    /\ DoAddLayer(st).layer_counter > st.layer_counter
    /\ Range(LayerIds(DoRemoveLayer(st))) \subseteq Range(LayerIds(st))
    /\ DoRemoveLayer(st).layer_counter = st.layer_counter
    /\ \A m \in {DoMoveLayerUp(st), DoMoveLayerDown(st)} :
         /\ Range(LayerIds(m)) = Range(LayerIds(st))
         /\ Len(m.layers) = Len(st.layers)
         /\ m.layer_counter = st.layer_counter

\* C13: no two layers have the same id, no command changes the id of a
\* layer, and add_layer gives an id no layer had before.
C13_LayerIdsUniqueStable ==
    /\ \A i \in 1..Len(layers), j \in 1..Len(layers) :
         layers[i].id = layers[j].id => i = j
    /\ LayerIdsStable(St)

\* the stroke ids of the form stroke_<n> among ids
Sequential(ids) == {sid \in ids : sid.pre = "stroke_"}

\* the ids of the path blocks and of the layers of a text
TextStrokeIds(lines) == {lines[k].id : k \in {j \in 1..Len(lines) : lines[j].t = "draw"}}
TextLayerIdsOf(lines) == {lines[k].id : k \in {j \in 1..Len(lines) : lines[j].t = "layer"}}

\* the ids of the strokes of the document, by place
SlotIds(st) == {SlotId(st, sl) : sl \in Slots(st)}

\* the stroke a brush press at p creates in st
BrushPress(st, p) == DoPointerDown([st EXCEPT !.tool = "brush"], p)

NonCreating(st) ==
    {DoUndo(st), DoRedo(st), DoClearCurrentLayer(st), DoRemoveLayer(st),
     DoAddLayer(st), DoMoveLayerUp(st), DoMoveLayerDown(st)}

\* C15: a new stroke gets an id no stroke created before it in the document
\* had, whatever became of those strokes.  Every stroke still held by the
\* document or by the history has a number below stroke_counter; a gesture
\* gives each stroke it creates the next value of the counter; no other
\* command changes the counter or creates a stroke.
C15_IdsNeverReused ==
    /\ \A sid \in Sequential({heap[r].id : r \in 1..Len(heap)}) :
           sid.num < stroke_counter
    /\ ~pressed =>
        /\ \A t \in Tools : \A p \in AllPts : \A q \in AllPts :
             LET g == Gesture(St, t, p, q) IN
             /\ g.stroke_counter - stroke_counter = Len(g.heap) - Len(heap)
             /\ \A r \in (Len(heap) + 1)..Len(g.heap) :
                    g.heap[r].id = StrokeId(stroke_counter + r - Len(heap) - 1)
        /\ \A d \in NonCreating(St) :
             /\ d.stroke_counter = stroke_counter
             /\ Len(d.heap) = Len(heap)

\* stroke_1 has left the document and the history, and the stroke drawn after
\* it is stroke_2
C15_Witness ==
    /\ ~pressed
    /\ SlotIds(St) = {StrokeId(2)}
    /\ Len(heap) = 1
    /\ Len(undo_stack) = 1
    /\ Last(undo_stack).type = "AddStroke"
    /\ redo_stack = <<>>

\* the text with the style tokens of every path block moved from the line of
\* the closing brace to the line after it
RECURSIVE AheadForm(_)
AheadForm(lines) ==
    IF lines = <<>> THEN <<>>
    ELSE (IF Head(lines).t = "brace" /\ Head(lines).style # <<>>
          THEN <<[t |-> "brace", style |-> <<>>],
                 [t |-> "style", style |-> Head(lines).style]>>
          ELSE <<Head(lines)>>) \o AheadForm(Tail(lines))

\* color and width of the strokes of the editor's document, layer by layer
EditorStyles(st) ==
    [i \in 1..Len(st.layers) |->
        [j \in 1..Len(st.layers[i].strokes) |->
            <<st.heap[st.layers[i].strokes[j]].color,
              st.heap[st.layers[i].strokes[j]].width>>]]

\* color and width of the path commands of the renderer, layer by layer
RenderStyles(rs) ==
    [i \in 1..Len(rs.layers) |->
        [j \in 1..Len(rs.layers[i].commands) |->
            <<rs.layers[i].commands[j].stroke, rs.layers[i].commands[j].sw>>]]

\* C16: a text whose path blocks carry their style tokens on the line of the
\* closing brace, and the same text with the tokens on the line after a lone
\* closing brace, give strokes of the same color and width, in the editor and
\* in the renderer.
C16_TailAheadSame ==
    ~pressed =>
        /\ EditorStyles(DoLoadFromLines(St, file))
              = EditorStyles(DoLoadFromLines(St, AheadForm(file)))
        /\ RenderStyles(RenderParse(file)) = RenderStyles(RenderParse(AheadForm(file)))
        /\ RenderParse(file).raised = RenderParse(AheadForm(file)).raised

\* the first non-blank line does not start with inkscript
NoHeader(lines) ==
    NextNonBlank(lines, 1) # 0 /\ lines[NextNonBlank(lines, 1)].t # "header"

\* the document with its canvas and its counters
DocState(st) ==
    [doc |-> Doc(st), width |-> st.width, height |-> st.height,
     bg_color |-> st.bg_color, layer_counter |-> st.layer_counter,
     stroke_counter |-> st.stroke_counter]

\* C17: opening a text whose first non-blank line does not start with
\* inkscript fails and leaves the editor's document as it was; the renderer
\* fails on it with an error and builds no layer.
C17_NoHeaderAborts ==
    (~pressed /\ NoHeader(file)) =>
        /\ LoadRaises(St, file)
        /\ DocState(DoLoadFromLines(St, file)) = DocState(St)
        /\ RenderParse(file).raised # None
        /\ RenderParse(file).layers = <<>>

\* C18: when the load of a file raises, the document afterwards is the one
\* before the load: the same layers and strokes, canvas size, background and
\* counters.
C18_FailedLoadKeepsDocument ==
    (~pressed /\ file # <<>> /\ LoadRaises(St, file)) =>
        DocState(DoLoadFromLines(St, file)) = DocState(St)

\* C19: a save or an autosave that stops before its last write leaves the
\* file that was at its path with the content it had.
C19_FailedSaveKeepsFile ==
    file # <<>> =>
        \A n \in 0..(Len(SaveLines(St)) - 1) : InterruptedWrite(St, n) = file

\* the text without its move/line lines whose coordinates cannot be parsed
Clean(lines) == SelectSeq(lines, LAMBDA ln : ~(ln.t = "cmd" /\ Unparsable(ln)))

\* C20: a move/line line with an unparsable coordinate is left out and
\* nothing else changes: the text loads as the text without that line does,
\* without an error of its own, in the editor and in the renderer.
C20_BadCoordinateSkipped ==
    (~pressed /\ file # <<>>) =>
        /\ LoadRaises(St, file) = LoadRaises(St, Clean(file))
        /\ DocState(DoLoadFromLines(St, file)) = DocState(DoLoadFromLines(St, Clean(file)))
        /\ RenderParse(file) = RenderParse(Clean(file))

\* a text with an unparsable line between `move 0 0` and `line 24 24` was
\* opened, and its stroke has these two points
C20_Witness ==
    /\ ~pressed
    /\ Clean(file) # file
    /\ \E sl \in Slots(St) :
         LET s == heap[layers[sl[1]].strokes[sl[2]]] IN
         /\ s.points = <<PA, PB>>
         /\ s.color = LoadDefaultColor
         /\ s.width = LoadDefaultWidth

\* the index of the draw path line of the block the text ends in, 0 when
\* the text does not end inside a path block
OpenBlock(lines) ==
    LET draws == {k \in 1..Len(lines) : lines[k].t = "draw"}
        d == IF draws = {} THEN 0 ELSE Max(draws)
    IN IF d # 0 /\ \A k \in (d + 1)..Len(lines) : lines[k].t # "brace" THEN d ELSE 0

\* the points of the move/line lines after line d
PointsAfter(lines, d) ==
    LET cmds == SelectSeq(SubSeq(lines, d + 1, Len(lines)),
                          LAMBDA ln : ln.t = "cmd" /\ ~Unparsable(ln))
    IN [k \in 1..Len(cmds) |-> <<ParseCoord(cmds[k].x), ParseCoord(cmds[k].y)>>]

\* the last stroke of the last layer of the document, by value
LastStroke(st) == st.heap[Last(Last(st.layers).strokes)]

\* the stroke of the block the text ends in, finished without style
Salvaged(lines) ==
    Stroke(lines[OpenBlock(lines)].id, LoadDefaultColor, LoadDefaultWidth,
           PointsAfter(lines, OpenBlock(lines)), None)

SalvagedIn(st, lines) ==
    /\ st.layers # <<>>
    /\ Last(st.layers).strokes # <<>>
    /\ LastStroke(st) = Salvaged(lines)

\* C21 as stated: a text that ends inside a path block loads with the stroke
\* of that block in the open layer, holding the points collected so far, the
\* default color, width 2 and no fill.
C21_UnterminatedKept ==
    (~pressed /\ file # <<>> /\ OpenBlock(file) # 0) =>
        /\ ~LoadRaises(St, file)
        /\ SalvagedIn(DoLoadFromLines(St, file), file)

\* C21: a text that ends inside a path block after at least one point loads
\* with the stroke of that block as the last stroke of the open layer, holding
\* the points collected so far, the default color, width 2 and no fill; when
\* the text ends before the first point of the block, the block gives no
\* stroke and the document is that of the text without the draw path line.
C21_UnterminatedKeptWithPoints ==
    (~pressed /\ file # <<>> /\ OpenBlock(file) # 0) =>
        /\ ~LoadRaises(St, file)
        /\ IF PointsAfter(file, OpenBlock(file)) # <<>>
           THEN /\ SalvagedIn(DoLoadFromLines(St, file), file)
                /\ Len(AllRefs(DoLoadFromLines(St, file).layers))
                      = 1 + Len(AllRefs(DoLoadFromLines(St,
                                 SubSeq(file, 1, OpenBlock(file) - 1)).layers))
           ELSE DocState(DoLoadFromLines(St, file))
                   = DocState(DoLoadFromLines(St, SubSeq(file, 1, OpenBlock(file) - 1)))

\* a text cut after the second point of a path block was opened: the stroke
\* is there with both points, black, width 2
C21_Witness ==
    /\ ~pressed
    /\ OpenBlock(file) # 0
    /\ Len(PointsAfter(file, OpenBlock(file))) = 2
    /\ SalvagedIn(St, file)

\* the parse state before line k of the text
Before(st, lines, k) == LoadLoop(LoadStart(st), SubSeq(lines, 1, k - 1))

\* the strokes of the open layer of ps that have the id sid
OpenWithId(ps, sid) ==
    IF ps.cur = 0 THEN {}
    ELSE {r \in Range(ps.layers[ps.cur].strokes) : ps.heap[r].id = sid}

\* C22: an erase line marks, in the open layer, one stroke already read that
\* has the id, and changes nothing else: no stroke of another layer, whatever
\* its id, and nothing at all when the open layer has no stroke with the id;
\* it raises no error.
C22_EraseLayerScoped ==
    (~pressed /\ file # <<>>) =>
        \A k \in {j \in 1..Len(file) : file[j].t = "erase"} :
            LET b == Before(St, file, k)
                a == LoadLine(b, file[k])
                hit == OpenWithId(b, file[k].ref)
            IN /\ ~a.raised
               /\ [a EXCEPT !.heap = b.heap] = b
               /\ Len(a.heap) = Len(b.heap)
               /\ \A r \in 1..Len(b.heap) : r \notin hit => a.heap[r] = b.heap[r]
               /\ \A r \in hit : [a.heap[r] EXCEPT !.erased = b.heap[r].erased] = b.heap[r]
               /\ hit # {} => \E r \in hit : a.heap[r].erased

\* a text with a path and an erase line naming it in the same layer was
\* opened: the stroke is in the document, erased
C22_Witness ==
    /\ ~pressed
    /\ \E k \in 1..Len(file) : file[k].t = "erase"
    /\ \E sl \in Slots(St) :
         LET s == heap[layers[sl[1]].strokes[sl[2]]] IN
         /\ s.erased
         /\ \E k \in 1..Len(file) : file[k].t = "erase" /\ file[k].ref = s.id

\* lines that are no directive of the format: `transform rotate 10`,
\* `set stroke=#ff0000`, and `set` alone
UnknownLines ==
    {[t |-> "other"], [t |-> "set", k |-> "stroke", v |-> "#ff0000"],
     [t |-> "set", k |-> None, v |-> None]}

InsertAt(lines, k, u) == SubSeq(lines, 1, k) \o <<u>> \o SubSeq(lines, k + 1, Len(lines))

\* what the renderer paints: the canvas, and the commands of each layer
RenderOut(rs) ==
    [raised |-> rs.raised, width |-> rs.width, height |-> rs.height,
     background |-> rs.background,
     layers |-> [i \in 1..Len(rs.layers) |->
                    [visible |-> rs.layers[i].visible,
                     commands |-> rs.layers[i].commands]]]

\* C23: a line that is no known directive, put anywhere after the header,
\* changes nothing: the editor's document and the renderer's layers and
\* commands are those of the text without the line, and neither fails.
C23_UnknownSkipped ==
    (~pressed /\ file # <<>>) =>
        \A k \in 1..Len(file) : \A u \in UnknownLines :
            /\ LoadRaises(St, InsertAt(file, k, u)) = LoadRaises(St, file)
            /\ DocState(DoLoadFromLines(St, InsertAt(file, k, u)))
                  = DocState(DoLoadFromLines(St, file))
            /\ RenderOut(RenderParse(InsertAt(file, k, u))) = RenderOut(RenderParse(file))

\* the strokes of the visible layers, from the last layer to the first, each
\* layer's strokes in list order, without the erased ones
PaintOrder(st) ==
    LET n == Len(st.layers)
        shown(i) == IF st.layers[n + 1 - i].visible
                    THEN [j \in 1..Len(st.layers[n + 1 - i].strokes) |->
                             st.heap[st.layers[n + 1 - i].strokes[j]]]
                    ELSE <<>>
    IN SelectSeq(Flatten([i \in 1..n |-> shown(i)]), LAMBDA s : ~s.erased)

\* the kinds of the calls, in order
Ops(calls) == [k \in 1..Len(calls) |-> calls[k].op]

\* what the statement has emitted for one stroke
Emitted(s) ==
    LET n == Len(s.points) IN
    (IF s.fill # None /\ n >= 3
     THEN <<[op |-> "polygon", points |-> s.points, fill |-> s.fill]>> ELSE <<>>)
    \o (IF n = 1 THEN <<[op |-> "ellipse", center |-> s.points[1],
                         r |-> Max({Milli, s.width * HalfMilli}), fill |-> s.color]>>
        ELSE IF n >= 2 THEN <<[op |-> "line", points |-> s.points, fill |-> s.color,
                               width |-> s.width]>>
        ELSE <<>>)

\* C24: the export paints the layers from the last to the first, leaves out
\* invisible layers and erased strokes, keeps each layer's strokes in list
\* order, and paints for a stroke the fill polygon first when it has a fill and
\* three points or more, then a dot for one point or one polyline over all its
\* points for two or more.
C24_ExportOrder ==
    ExportCalls(St) = Flatten([k \in 1..Len(PaintOrder(St)) |-> Emitted(PaintOrder(St)[k])])

\* layer 2 holds a plain stroke and layer 1, stored first, a filled one of
\* three points: the export paints the line of layer 2, then the polygon and
\* the line of layer 1
C24_Witness ==
    /\ ~pressed
    /\ Len(layers) = 2
    /\ Ops(ExportCalls(St)) = <<"line", "polygon", "line">>
    /\ ExportCalls(St)[1].points = heap[layers[2].strokes[1]].points
    /\ ExportCalls(St)[2].points = heap[layers[1].strokes[1]].points

\* C25: for a text with a header that both read without an error, the
\* renderer makes the calls the editor's export makes after loading the text,
\* in the same order.
C25_EditorRendererAgree ==
    (~pressed /\ file # <<>> /\ ~NoHeader(file) /\ ~LoadRaises(St, file)
        /\ RenderParse(file).raised = None) =>
        RenderCalls(RenderParse(file)) = ExportCalls(DoLoadFromLines(St, file))

\* ------------------------------------------------------------------
\* Hit tests
\* ------------------------------------------------------------------
\* the strokes of the layers that are not visible
HiddenRefs(st) ==
    UNION {Range(st.layers[k].strokes) :
             k \in {i \in 1..Len(st.layers) : ~st.layers[i].visible}}

\* C26: an eraser gesture or a fill click changes neither the erased flag nor
\* the fill of a stroke of a layer that is not visible, the current layer
\* included.
C26_InvisibleNotTargets ==
    ~pressed =>
        \A t \in {"eraser", "fill"} : \A p \in AllPts : \A q \in AllPts :
            \A r \in HiddenRefs(St) :
                /\ Gesture(St, t, p, q).heap[r].erased = heap[r].erased
                /\ Gesture(St, t, p, q).heap[r].fill = heap[r].fill

\* the strokes whose erased flag is set
ErasedRefs(st) == {r \in Range(AllRefs(st.layers)) : st.heap[r].erased}

\* C27: while a stroke is erased, an eraser gesture, a fill click, a rectangle
\* selection or a drag of the selection leaves its points and its fill as
\* they are, and a rectangle selection does not select it; a stroke selected
\* and then erased is not moved by a drag of the selection.
C27_ErasedInert ==
    ~pressed =>
        \A t \in {"eraser", "fill", "select"} : \A p \in AllPts : \A q \in AllPts :
            \A r \in ErasedRefs(St) :
                /\ Gesture(St, t, p, q).heap[r].points = heap[r].points
                /\ Gesture(St, t, p, q).heap[r].fill = heap[r].fill
                /\ (t = "select" /\ ~DoPointerDown(DoSetTool(St, t), p).moving_selection)
                       => r \notin Range(Gesture(St, t, p, q).selected_strokes)

\* eraser positions: on a stroke point, at EraserWidth / 2 from (0, 0), and
\* 0.001 beyond that
HitPts == AllPts \cup {<<6000, 8000>>, <<6001, 8000>>}

\* e and s are at most w / 2 apart
Near(e, s, w) ==
    (e[1] - s[1]) * (e[1] - s[1]) + (e[2] - s[2]) * (e[2] - s[2])
        <= ((w * Milli) * (w * Milli)) \div 4

\* the strokes an eraser gesture from p to q marks
Marked(st, p, q) ==
    {r \in Range(AllRefs(st.layers)) :
        Gesture(st, "eraser", p, q).heap[r].erased /\ ~st.heap[r].erased}

\* the strokes of the current layer that are not erased and have a point at
\* most EraserWidth / 2 from p or from q
InReach(st, p, q) ==
    {r \in Range(AllRefs(st.layers)) :
        /\ CurrentLayer(st) # 0
        /\ r \in Range(st.layers[CurrentLayer(st)].strokes)
        /\ ~st.heap[r].erased
        /\ \E e \in {p, q} : \E s \in Range(st.heap[r].points) :
               Near(e, s, EraserWidth)}

\* C28: an eraser gesture marks exactly the strokes of the current layer that
\* are not erased and have a point at distance <= eraser_width / 2 from a
\* point of the eraser path, and no stroke of another layer; with radius 5
\* a path of the one point (0, 0) hits a stroke with the point (3, 4) and
\* misses a stroke of the one point (10, 10).
C28_EraserExact ==
    /\ EraserHits(<<<<0, 0>>>>, <<<<3000, 4000>>>>, 10)
    /\ ~EraserHits(<<<<0, 0>>>>, <<<<10000, 10000>>>>, 10)
    /\ ~pressed =>
           \A p \in HitPts : \A q \in HitPts : Marked(St, p, q) = InReach(St, p, q)

\* two layers with a stroke at (0, 0) each: the eraser at (6, 8), 10 away,
\* marks the one of the current layer only, and at (6.001, 8) none
C28_Witness ==
    /\ ~pressed
    /\ Len(layers) = 2
    /\ \A k \in 1..2 : \E r \in Range(layers[k].strokes) :
           ~heap[r].erased /\ heap[r].points = <<PA>>
    /\ Marked(St, <<6000, 8000>>, <<6000, 8000>>) # {}
    /\ Marked(St, <<6000, 8000>>, <<6000, 8000>>)
           \subseteq Range(layers[CurrentLayer(St)].strokes)
    /\ Marked(St, <<6001, 8000>>, <<6001, 8000>>) = {}

\* the ray from p to the right meets the edge from a to b: the ends lie on
\* different sides of the ray's line (so a horizontal edge never does) and p
\* is strictly left of the point where the edge meets that line
RayMeets(p, a, b) ==
    /\ (a[2] > p[2]) # (b[2] > p[2])
    /\ IF b[2] > a[2]
       THEN (p[1] - a[1]) * (b[2] - a[2]) < (b[1] - a[1]) * (p[2] - a[2])
       ELSE (p[1] - a[1]) * (b[2] - a[2]) > (b[1] - a[1]) * (p[2] - a[2])

\* the parity of the edges of the closed ring the ray meets
RayParity(p, polygon) ==
    Cardinality({i \in 1..Len(polygon) :
                    RayMeets(p, polygon[i], polygon[(i % Len(polygon)) + 1])}) % 2 = 1

Square == <<<<0, 0>>, <<10000, 0>>, <<10000, 10000>>, <<0, 10000>>>>

\* C29: for integer points and vertices, _point_in_polygon is the parity of
\* the edges of the implicitly closed ring that a ray from the point meets, a
\* horizontal edge never counting; it is false for fewer than 3 vertices; in
\* the square (0,0), (10,0), (10,10), (0,10) it is true for (5,5) and false
\* for (15,5).
C29_EvenOddParity ==
    /\ PointInPolygon(<<5000, 5000>>, Square)
    /\ ~PointInPolygon(<<15000, 5000>>, Square)
    /\ \A r \in 1..Len(heap) : \A p \in PolyPts :
           /\ PointInPolygon(p, heap[r].points) = RayParity(p, heap[r].points)
           /\ Len(heap[r].points) < 3 => ~PointInPolygon(p, heap[r].points)

\* ------------------------------------------------------------------
\* Ellipse
\* ------------------------------------------------------------------
\* the points of the stroke an ellipse gesture from a to b adds
EllipseOf(st, a, b) == LastStroke(Gesture(st, "ellipse", a, b)).points

\* max(12, round(24 * max(rx, ry) / 100)), the half-axes in 0.001
RoundSteps(a, b) ==
    LET r == Max({Abs(b[1] - a[1]) \div 2, Abs(b[2] - a[2]) \div 2})
    IN Max({12, (2 * 24 * r + 100 * Milli) \div (2 * 100 * Milli)})

\* C30: an ellipse gesture with half-axes rx and ry adds a stroke of
\* steps + 1 points, steps = max(12, round(24 * max(rx, ry) / 100)), and the
\* last point is the first one again.
C30_EllipseClosed ==
    ~pressed =>
        \A a \in EllipsePts : \A b \in EllipsePts :
            /\ Len(EllipseOf(St, a, b)) = RoundSteps(a, b) + 1
            /\ Last(EllipseOf(St, a, b)) = Head(EllipseOf(St, a, b))

\* ------------------------------------------------------------------
\* Layers
\* ------------------------------------------------------------------
\* C31: add_layer gives the new layer the value of the layer counter as its
\* id, puts it at index 0 and adds one to the counter; the layers there were
\* follow in the order they had, each with its id and its strokes.
C31_AddLayerOnTop ==
    ~pressed =>
        /\ Head(DoAddLayer(St).layers).id = layer_counter
        /\ Head(DoAddLayer(St).layers).strokes = <<>>
        /\ DoAddLayer(St).layer_counter = layer_counter + 1
        /\ Tail(Doc(DoAddLayer(St))) = Doc(St)

\* a layer with a stroke lies under the layer added after it
C31_Witness ==
    /\ ~pressed
    /\ Len(layers) = 2
    /\ layers[1].id = 2 /\ layers[1].strokes = <<>>
    /\ layers[2].id = 1 /\ layers[2].strokes # <<>>
    /\ layer_counter = 3

\* the sequence q with the elements at i and j exchanged
Swap(q, i, j) ==
    [k \in 1..Len(q) |-> IF k = i THEN q[j] ELSE IF k = j THEN q[i] ELSE q[k]]

\* C32: move_layer_up with the current layer first, and move_layer_down with
\* the current layer last, change nothing; otherwise the current layer and
\* its neighbour on that side change places, no other layer moves, every
\* layer keeps its strokes, and the current layer is the moved one.
C32_ReorderSwaps ==
    (~pressed /\ layers # <<>>) =>
        /\ IF CurrentLayer(St) = 1 THEN DoMoveLayerUp(St) = St
           ELSE /\ Doc(DoMoveLayerUp(St))
                     = Swap(Doc(St), CurrentLayer(St) - 1, CurrentLayer(St))
                /\ CurrentLayer(DoMoveLayerUp(St)) = CurrentLayer(St) - 1
        /\ IF CurrentLayer(St) = Len(layers) THEN DoMoveLayerDown(St) = St
           ELSE /\ Doc(DoMoveLayerDown(St))
                     = Swap(Doc(St), CurrentLayer(St), CurrentLayer(St) + 1)
                /\ CurrentLayer(DoMoveLayerDown(St)) = CurrentLayer(St) + 1

\* ------------------------------------------------------------------
\* Invariants of the document
\* ------------------------------------------------------------------
\* C33: every stroke of every layer has at least one point, in every state,
\* also after loading a text with a path block without a valid move or line
\* line.
C33_NoEmptyStroke ==
    \A r \in DocRefs(St) : heap[r].points # <<>>

\* the canvas directive of the text is not two positive integers
BadCanvas(lines) ==
    \E k \in 1..Len(lines) :
        /\ lines[k].t = "canvas"
        /\ (Unparsable(lines[k]) \/ lines[k].w <= 0 \/ lines[k].h <= 0)

\* C34: the canvas width and height are positive in every state; loading a
\* text whose canvas directive has a zero, negative or non-numeric value
\* leaves them as they were and reads the rest of the text, in the editor
\* and in the renderer.
C34_CanvasPositive ==
    /\ width > 0 /\ height > 0
    /\ (~pressed /\ file # <<>> /\ BadCanvas(file)) =>
           \A f \in {g \in EdgeTexts : BadCanvas(g)} :
               /\ DoLoadFromLines(St, f).width = width
               /\ DoLoadFromLines(St, f).height = height
               /\ DoLoadFromLines(St, f).layers # <<>>
               /\ RenderParse(f).raised = None
               /\ RenderParse(f).layers # <<>>
    /\ (file # <<>> /\ RenderParse(file).raised = None) =>
           RenderParse(file).width > 0 /\ RenderParse(file).height > 0

\* the text has neither a canvas nor a background line
NoDirectives(lines) == \A k \in 1..Len(lines) : lines[k].t \notin {"canvas", "background"}

\* C35: a text loaded from any state of the editor gives the canvas size,
\* background, layers, strokes and counters it gives loaded into a new
\* editor; a text without canvas and background lines gives the default
\* size and background.
C35_LoadDependsOnText ==
    ~pressed =>
        \A f \in EdgeTexts :
            /\ DocState(DoLoadFromLines(St, f)) = DocState(DoLoadFromLines(InitSt, f))
            /\ NoDirectives(f) =>
                   /\ DoLoadFromLines(St, f).width = DefaultWidth
                   /\ DoLoadFromLines(St, f).height = DefaultHeight
                   /\ DoLoadFromLines(St, f).bg_color = DefaultBg

\* C36: right after a text is loaded, when every entry of both stacks was
\* recorded before the load, undo() and redo() leave the loaded document as
\* it is, as they do after new_document.
C36_HistoryStaysBehind ==
    ~pressed =>
        /\ \A f \in EdgeTexts :
               /\ Doc(DoUndo(DoLoadFromLines(St, f))) = Doc(DoLoadFromLines(St, f))
               /\ Doc(DoRedo(DoLoadFromLines(St, f))) = Doc(DoLoadFromLines(St, f))
        /\ Doc(DoUndo(DoNewDocument(St))) = Doc(DoNewDocument(St))
        /\ Doc(DoRedo(DoNewDocument(St))) = Doc(DoNewDocument(St))

\* ------------------------------------------------------------------
\* Gestures and the history
\* ------------------------------------------------------------------
\* the entries of the undo stack that add stroke r to the layer with id lid
AddEntries(st, lid, r) ==
    {i \in 1..Len(st.undo_stack) :
        /\ st.undo_stack[i].type = "AddStroke"
        /\ st.undo_stack[i].stroke = r
        /\ st.undo_stack[i].layer_id = lid}

\* C37: once the button is released, every stroke a brush gesture put into a
\* layer has exactly one AddStroke entry, and that entry names the layer
\* holding the stroke, whatever tool keys and layer selections came between
\* the press and the release.
C37_GestureRecorded ==
    ~pressed =>
        \A k \in 1..Len(layers) : \A r \in Range(layers[k].strokes) :
            Cardinality(AddEntries(St, layers[k].id, r)) = 1

\* C38: while the document has a layer, 0 <= current_layer_index < number
\* of layers, after add_layer, remove_layer, the layer moves, a layer
\* selection and a load in any order; so move_layer_up and move_layer_down
\* never index beyond the list.
C38_IndexInRange ==
    layers # <<>> =>
        /\ 0 <= current_layer_index
        /\ current_layer_index < Len(layers)
        /\ ~MoveLayerUpRaises(St)

\* C39: the entry of an eraser gesture lists exactly the strokes the gesture
\* changed from not erased to erased, undoing the entry leaves erased every
\* stroke an earlier gesture erased, and a gesture that hits nothing pushes
\* no entry and leaves the undo and the redo stack as they were.
C39_EraseEntryExact ==
    ~pressed =>
        \A p \in AllPts : \A q \in AllPts :
            LET s1 == Gesture(St, "eraser", p, q)
                new == NewlyErased(St, s1)
                li == CurrentLayer(St)
            IN /\ new = {} =>
                    /\ s1.undo_stack = undo_stack
                    /\ s1.redo_stack = redo_stack
               /\ new # {} =>
                    /\ Front(s1.undo_stack) = undo_stack
                    /\ Last(s1.undo_stack).type = "EraseStrokes"
                    /\ Last(s1.undo_stack).layer_id = layers[li].id
                    /\ Len(Last(s1.undo_stack).stroke_ids) = Cardinality(new)
                    /\ Range(Last(s1.undo_stack).stroke_ids) =
                           {heap[r].id : r \in new}
                    /\ \A r \in DocRefs(St) :
                           heap[r].erased => DoUndo(s1).heap[r].erased

====
